---------------------------- MODULE Spec2Model ----------------------------
(***************************************************************************)
(* The LTC (linear timecode) generator of libs/ardour/session_ltc.cc:      *)
(* Session::send_ltc_for_cycle and the functions around it.                *)
(*                                                                         *)
(* Representation.                                                         *)
(*  - Sample positions and counts are integers, as in the source.          *)
(*  - A `double` that holds a speed, or a count of samples with a          *)
(*    fractional part (ltc_speed, new_ltc_speed, ltc_enc_cnt, poff), is    *)
(*    held in fixed point: the integer is the value times SpeedScale.      *)
(*    Only the division by the sample rate of the soft drift correction    *)
(*    rounds (to the nearest unit).                                        *)
(*  - send_ltc_for_cycle is one run of the steps BlockBegin, Insert*,      *)
(*    Remove*, Align, Drain, Encode; pc names the position inside it and   *)
(*    no other operation is enabled while pc # "idle" (the callback is     *)
(*    synchronous).                                                        *)
(*  - libltc (the bit encoder) and the Timecode conversions are outside    *)
(*    the repository; they are modelled by what the calls do: the encoder  *)
(*    holds a timecode that set/inc/dec change, and encoding one byte at   *)
(*    speed s yields about fptcf/10/|s| samples or fails.                  *)
(*  - Variables whose name starts with g_ are history variables: they      *)
(*    record what the code did and are read by no guard.                   *)
(***************************************************************************)
EXTENDS Integers, Sequences, FiniteSets, TLC

(***************************************************************************)
(* Bounds and parameters of the model                                      *)
(***************************************************************************)
\* blocks processed in one behaviour
MaxBlocks == 2
\* encoder failures injected in one behaviour
MaxEncFail == 1

\* n_samples of every block (pframes_t n_samples)
BlockLen == 12
\* engine().sample_rate() and nominal_sample_rate()
EngineRate == 1200
NominalRate == 1200
\* fixed-point units per 1.0 of a double
SpeedScale == EngineRate

\* ltc_enc_pos = -9999
Sentinel == -9999
\* levels libltc writes (range 38..218) and the filler level
EncLo == 38
EncHi == 218
Filler == 127
\* Config->get_ltc_output_volume(), in the units ltcvol divides by 90
OutputVolume == 90

\* end_sample - start_sample of a block: speeds -1, 0, 1/12, 1/2, 1, 11
Deltas == {-12, 0, 1, 6, 12, 132}
\* start_sample of a block that does not continue the block before (a seek)
SeekTargets == {2, 38}
(***************************************************************************)
(* Arithmetic of the source's doubles and integers                         *)
(***************************************************************************)
Abs(x) == IF x < 0 THEN -x ELSE x

Min(a, b) == IF a < b THEN a ELSE b

\* floor(a / b) and ceil(a / b) for b > 0
FloorDiv(a, b) == a \div b

CeilDiv(a, b) == -((-a) \div b)

\* rint(a / b) for b > 0: to nearest, ties to even
Rint(a, b) ==
    LET f == a \div b
        r == a % b
    IN  IF 2 * r < b THEN f
        ELSE IF 2 * r > b THEN f + 1
        ELSE IF f % 2 = 0 THEN f ELSE f + 1

\* fmod(x, w) and the integer x % w of C: the result has the sign of x
Fmod(x, w) == IF x >= 0 THEN x % w ELSE -((-x) % w)

SIGNUM_pos(a) == 1

SIGNUM(a) == IF a < 0 THEN -1 ELSE 1

(***************************************************************************)
(* LTC_RISE_TIME (speed), line 58:                                         *)
(*   MIN (100, MAX (40, 4000000 / ((speed==0)?1:speed) / sample_rate ()))   *)
(* in tenths, rounded down; rate is the sample rate of the engine, a        *)
(* multiple of 100.                                                        *)
(***************************************************************************)
LTC_RISE_TIME(speed, rate) ==
    LET sp == IF speed = 0 THEN SpeedScale ELSE speed
        q  == FloorDiv(10 * 40000 * SpeedScale, sp * (rate \div 100))
        lo == IF q > 400 THEN q ELSE 400
    IN  IF lo < 1000 THEN lo ELSE 1000

(***************************************************************************)
(* Timecode formats and conversions                                        *)
(***************************************************************************)
timecode_to_frames_per_second(tcf) ==
    CASE tcf = "timecode_25" -> 25
      [] tcf = "timecode_30" -> 30
      [] tcf = "timecode_60" -> 60

timecode_has_drop_frames(tcf) == FALSE

TV_STANDARD(tcf) ==
    IF timecode_to_frames_per_second(tcf) = 25 THEN "LTC_TV_625_50"
    ELSE IF timecode_has_drop_frames(tcf) THEN "LTC_TV_525_60"
    ELSE "LTC_TV_FILM_24"

\* samples_per_timecode_frame(), an integer for the formats above
fptcf(tcf) == EngineRate \div timecode_to_frames_per_second(tcf)

\* ltc_frame_alignment (samples_per_frame, standard) of libltc
ltc_frame_alignment(spf, standard) ==
    CASE standard = "LTC_TV_525_60" -> Rint(spf * 4, 525)
      [] standard = "LTC_TV_625_50" -> Rint(spf, 625)
      [] OTHER -> 0

\* const samplecnt_t wrap24h = 86400. * sample_rate()
wrap24h == 86400 * EngineRate

\* Timecode::sample_to_timecode: round down to the timecode frame (no offset)
sample_to_timecode(pos, tcf) ==
    LET fps == timecode_to_frames_per_second(tcf)
        fr  == pos \div fptcf(tcf)
    IN  [hours   |-> fr \div (3600 * fps),
         minutes |-> (fr \div (60 * fps)) % 60,
         seconds |-> (fr \div fps) % 60,
         frames  |-> fr % fps]

\* Timecode::timecode_to_sample (no offset)
timecode_to_sample(tc, tcf) ==
    LET fps == timecode_to_frames_per_second(tcf)
    IN  (((tc.hours * 60 + tc.minutes) * 60 + tc.seconds) * fps + tc.frames)
            * fptcf(tcf)

\* frame number of an encoder timecode and back, within one day
TcFrames(tc, tcf) ==
    LET fps == timecode_to_frames_per_second(tcf)
    IN  ((tc.hours * 60 + tc.minutes) * 60 + tc.seconds) * fps + tc.frames

TcOfFrames(fr, tcf) ==
    LET fps == timecode_to_frames_per_second(tcf)
    IN  [hours   |-> (fr \div (3600 * fps)) % 24,
         minutes |-> (fr \div (60 * fps)) % 60,
         seconds |-> (fr \div fps) % 60,
         frames  |-> fr % fps]

\* ltc_encoder_inc_timecode / ltc_encoder_dec_timecode: one frame, wrapping
\* at 24 hours
ltc_encoder_inc_timecode(tc, tcf) ==
    TcOfFrames((TcFrames(tc, tcf) + 1)
                  % (86400 * timecode_to_frames_per_second(tcf)), tcf)

ltc_encoder_dec_timecode(tc, tcf) ==
    TcOfFrames((TcFrames(tc, tcf) - 1)
                  % (86400 * timecode_to_frames_per_second(tcf)), tcf)

ZeroTc == [hours |-> 0, minutes |-> 0, seconds |-> 0, frames |-> 0]


(***************************************************************************)
(* State                                                                   *)
(***************************************************************************)
VARIABLES
    \* Session fields of the generator
    ltc_speed,          \* double, fixed point
    ltc_prev_cycle,     \* samplepos_t
    ltc_enc_pos,        \* samplepos_t, Sentinel = "needs resync"
    ltc_enc_byte,       \* int
    ltc_enc_cnt,        \* double, fixed point
    ltc_buf_len,        \* samplecnt_t
    ltc_buf_off,        \* samplecnt_t
    ltc_enc_buf,        \* the first ltc_buf_len samples of the scratch buffer
    restarting,         \* bool
    ltc_enc_tcformat,   \* TimecodeFormat of the encoder
    ltc_out_latency,    \* ltc_out_latency.max
    port_latency,       \* what get_connected_latency_range reports (max)
    alive,              \* ltc_encoder && ltc_enc_buf
    enc_tc,             \* the timecode held by the libltc encoder
    \* collaborators
    cfg_format,         \* config.get_timecode_format()
    gate,               \* why the block is gated, or "none"
    master_resolution,  \* transport_master()->resolution(), -1 if not external
    transport,          \* end_sample of the last block: where the next one
                        \* starts unless the transport was located
    \* send_ltc_for_cycle in flight
    pc,
    start_sample,
    end_sample,
    new_ltc_speed,      \* double, fixed point
    cycle_start_sample,
    poff,               \* double, fixed point
    txf,
    out,                \* the port buffer, BlockLen samples, in units of 1/90
    rp,                 \* loop index of the resampling loops
    incnt,              \* incnt / rmcnt
    avg_num,            \* avg_distance = avg_num / avg_den
    avg_den,
    \* history
    g_sites,            \* call sites of ltc_tx_reset since the last block began
    g_ret,              \* how the block returned, "run" while in flight
    g_blk,              \* the current (or last) block: what it computed
    g_prevblk,          \* the same of the block before
    g_nwritten,         \* samples stored by out[txf++] = val in this block
    g_carry,            \* unread samples encoded before this block
    g_out_carried,      \* of those, the number written to out in this block
    g_enc_arg,          \* byte index of the last ltc_encoder_encode_byte
    g_nenc,             \* calls of ltc_encoder_encode_byte in this block
    g_hard,             \* the block took the re-align branch (5)
    g_locked,           \* the run of blocks in progress (one speed, each
                        \* starting where the last ended, no reset) has had
                        \* a block that passed (4) without re-align and with
                        \* restarting false
    g_byte10,           \* the re-align branch computed byte 10
    nblocks,
    nfail,
    \* a function of the source applied on its own: its arguments, its result
    fn_in,
    fn_out,
    n_samples,          \* pframes_t n_samples of send_ltc_for_cycle
    spf_format          \* the format that samples_per_timecode_frame (), a
                        \* value the Session caches, was computed for

session_vars == <<ltc_speed, ltc_prev_cycle, ltc_enc_pos, ltc_enc_byte,
                  ltc_enc_cnt, ltc_buf_len, ltc_buf_off, ltc_enc_buf,
                  restarting, enc_tc>>

env_vars_but_fn == <<cfg_format, gate, master_resolution, port_latency,
                    ltc_enc_tcformat, alive, n_samples, spf_format>>

env_vars == <<env_vars_but_fn, fn_in, fn_out>>

local_vars == <<start_sample, end_sample, new_ltc_speed, cycle_start_sample,
                poff, rp, incnt, avg_num, avg_den>>

hist_vars == <<g_blk, g_prevblk, g_nwritten, g_carry,
               g_out_carried, g_enc_arg, g_nenc, g_hard, g_byte10, g_locked>>

vars == <<session_vars, env_vars, local_vars, hist_vars, ltc_out_latency,
          transport, pc, txf, out, g_sites, g_ret, nblocks, nfail>>

\* samples_per_timecode_frame (): the Session computes it when the format of
\* the configuration has changed and answers with what it computed
samples_per_timecode_frame == fptcf(spf_format)

\* The Session fields as one record, for the functions that change several
GS == [ltc_speed      |-> ltc_speed,
       ltc_prev_cycle |-> ltc_prev_cycle,
       ltc_enc_pos    |-> ltc_enc_pos,
       ltc_enc_byte   |-> ltc_enc_byte,
       ltc_enc_cnt    |-> ltc_enc_cnt,
       ltc_buf_len    |-> ltc_buf_len,
       ltc_buf_off    |-> ltc_buf_off,
       ltc_enc_buf    |-> ltc_enc_buf,
       restarting     |-> restarting,
       enc_tc         |-> enc_tc,
       g_sites        |-> g_sites]

SetGS(s) ==
    /\ ltc_speed' = s.ltc_speed
    /\ ltc_prev_cycle' = s.ltc_prev_cycle
    /\ ltc_enc_pos' = s.ltc_enc_pos
    /\ ltc_enc_byte' = s.ltc_enc_byte
    /\ ltc_enc_cnt' = s.ltc_enc_cnt
    /\ ltc_buf_len' = s.ltc_buf_len
    /\ ltc_buf_off' = s.ltc_buf_off
    /\ ltc_enc_buf' = s.ltc_enc_buf
    /\ restarting' = s.restarting
    /\ enc_tc' = s.enc_tc
    /\ g_sites' = s.g_sites

Silence == [i \in 1..n_samples |-> 0]

\* history record of a block; tracked = the block computed a speed
NoBlk == [tracked |-> FALSE, raw |-> 0, eff |-> 0, cont |-> FALSE,
          start |-> 0, end |-> 0, ltc_speed |-> 0, ltc_prev_cycle |-> -1,
          ltc_enc_pos |-> Sentinel, restarting |-> FALSE, unread |-> 0]

(***************************************************************************)
(* Session::ltc_tx_reset                                                   *)
(***************************************************************************)
ltc_tx_reset_keeps_pos(s, site) ==
    [s EXCEPT !.ltc_buf_len = 0,
              !.ltc_buf_off = 0,
              !.ltc_enc_buf = << >>,
              !.ltc_enc_byte = 0,
              !.ltc_enc_cnt = 0,
              !.g_sites = @ \cup {site}]

ltc_tx_reset(s, site) ==
    [s EXCEPT !.ltc_enc_pos = Sentinel,
              !.ltc_buf_len = 0,
              !.ltc_buf_off = 0,
              !.ltc_enc_buf = << >>,
              !.ltc_enc_byte = 0,
              !.ltc_enc_cnt = 0,
              !.g_sites = @ \cup {site}]

(***************************************************************************)
(* Session::ltc_tx_recalculate_position                                    *)
(***************************************************************************)
ltc_tx_recalculate_position(s, tcf) ==
    [s EXCEPT !.ltc_enc_pos = timecode_to_sample(s.enc_tc, tcf),
              !.restarting = FALSE]

(***************************************************************************)
(* Session::ltc_tx_initialize: the state after construction                *)
(***************************************************************************)
\* ltc_tx_initialize without the restarting = false of line 90
InitFields_restarting ==
    /\ enc_tc = ZeroTc
    /\ ltc_enc_buf = << >>
    /\ ltc_speed = 0
    /\ ltc_prev_cycle = -1
    /\ ltc_enc_pos = Sentinel
    /\ ltc_buf_len = 0
    /\ ltc_buf_off = 0
    /\ ltc_enc_byte = 0
    /\ ltc_enc_cnt = 0
    /\ restarting = TRUE

\* the Session fields as ltc_tx_initialize leaves them
InitFields ==
    /\ enc_tc = ZeroTc
    /\ ltc_enc_buf = << >>
    /\ ltc_speed = 0
    /\ ltc_prev_cycle = -1
    /\ ltc_enc_pos = Sentinel
    /\ ltc_buf_len = 0
    /\ ltc_buf_off = 0
    /\ ltc_enc_byte = 0
    /\ ltc_enc_cnt = 0
    /\ restarting = FALSE

\* what the generator reads from the session, the configuration, the port
InitEnvAt(n) ==
    /\ n_samples = n
    /\ ltc_enc_tcformat = "timecode_30"
    /\ cfg_format = "timecode_30"
    /\ spf_format = cfg_format
    /\ alive = TRUE
    /\ port_latency = 0
    /\ ltc_out_latency = port_latency
    /\ gate = "none"
    /\ master_resolution = -1

InitEnv == InitEnvAt(BlockLen)

\* no call of send_ltc_for_cycle yet
InitLocals ==
    /\ pc = "idle"
    /\ start_sample = 0
    /\ end_sample = 0
    /\ new_ltc_speed = 0
    /\ cycle_start_sample = 0
    /\ poff = 0
    /\ txf = 0
    /\ out = Silence
    /\ rp = 0
    /\ incnt = 0
    /\ avg_num = 0
    /\ avg_den = 1

InitHist ==
    /\ g_sites = {"init"}
    /\ g_ret = "none"
    /\ g_blk = NoBlk
    /\ g_prevblk = NoBlk
    /\ g_nwritten = 0
    /\ g_carry = 0
    /\ g_out_carried = 0
    /\ g_enc_arg = -1
    /\ g_nenc = 0
    /\ g_hard = FALSE
    /\ g_locked = FALSE
    /\ g_byte10 = FALSE

NoFn == << >>

Init ==
    /\ InitFields
    /\ InitEnv
    /\ InitLocals
    /\ InitHist
    /\ nblocks = 0
    /\ nfail = 0
    /\ transport = 0
    /\ fn_in = NoFn
    /\ fn_out = NoFn

(***************************************************************************)
(* Notifications and collaborators, between two blocks                     *)
(***************************************************************************)
\* ltc_tx_connections: connected at lines 88-89, dropped by ltc_tx_cleanup
\* (line 95) before it frees the encoder
SlotConnected_kept(a) == TRUE

SlotConnected(a) == a

\* the slot of the Xrun signal: Session::ltc_tx_reset, connected at line 88
\* until ltc_tx_cleanup drops the connections
XrunSlot ==
    /\ SlotConnected(alive)
    /\ SetGS(ltc_tx_reset(GS, "xrun"))
    /\ g_carry' = 0
    /\ g_locked' = FALSE
    /\ UNCHANGED <<env_vars, local_vars, ltc_out_latency, transport, pc, txf,
                   out, g_ret, g_blk, g_prevblk, g_nwritten, g_out_carried,
                   g_enc_arg, g_nenc, g_hard, g_byte10, nblocks, nfail>>

\* Xrun signal emitted between two blocks
Xrun ==
    /\ pc = "idle"
    /\ XrunSlot

\* Session::ltc_tx_resync_latency (playback), connected to LatencyUpdated
ltc_tx_resync_latency(playback) ==
    IF ~playback THEN ltc_out_latency ELSE port_latency

\* the slot of the LatencyUpdated signal, connected at line 89
LatencySlot(playback) ==
    /\ SlotConnected(alive)
    /\ ltc_out_latency' = ltc_tx_resync_latency(playback)
    /\ UNCHANGED <<session_vars, env_vars, local_vars, hist_vars, transport,
                   pc, txf, out, g_sites, g_ret, nblocks, nfail>>

\* LatencyUpdated signal emitted between two blocks
LatencyUpdated ==
    /\ pc = "idle"
    /\ \E playback \in BOOLEAN : LatencySlot(playback)

(***************************************************************************)
(* send_ltc_for_cycle, (1) and (2): gates, format, speed and direction     *)
(***************************************************************************)
\* new_ltc_speed *= nominal_sample_rate() / sample_rate()
Rescale(speed) ==
    IF NominalRate # EngineRate THEN Rint(speed * NominalRate, EngineRate)
    ELSE speed

\* end_sample == start_sample || fabs(new_ltc_speed) < 0.1
NotRolling(start, end, speed) ==
    end = start \/ 10 * Abs(speed) < SpeedScale

\* fabs(new_ltc_speed) > 10.0
OutOfBounds_never(speed) == FALSE

OutOfBounds(speed) == Abs(speed) > 10 * SpeedScale

\* cycle_start_sample: latency compensation, TV standard offset, clamp
CycleStartAt(start, speed, lat, alignment) ==
    LET a == IF speed < 0 THEN start - lat
             ELSE IF speed > 0 THEN start + lat
             ELSE start
        b == IF speed # 0 THEN a - alignment ELSE a
    IN  IF b < 0 THEN 0 ELSE b

CycleStart(start, speed, lat, tcf) ==
    CycleStartAt(start, speed, lat,
                 ltc_frame_alignment(samples_per_timecode_frame,
                                     TV_STANDARD(tcf)))

\* what BlockBegin leaves: the Session fields s, where the block goes on
\* (next) or how it returned (ret), and the locals of the later steps
Res(s, next, ret, raw, new, cs, pf, r, an, ad) ==
    [s |-> s, next |-> next, ret |-> ret, tracked |-> TRUE, raw |-> raw,
     new |-> new, cs |-> cs, poff |-> pf, rp |-> r, avg_num |-> an,
     avg_den |-> ad]

Untracked(s, ret) ==
    [Res(s, "idle", ret, 0, 0, 0, 0, 0, 0, 1) EXCEPT !.tracked = FALSE]

\* ltc_speed == 0 && new_ltc_speed != 0
StartedRolling_never(speed, new) == FALSE

StartedRolling(speed, new) == speed = 0 /\ new # 0

\* ltc_speed = new_ltc_speed; return;  (new_ltc_speed is 0 here)
ReturnIdle_keeps_speed(s) == s

ReturnIdle(s) == [s EXCEPT !.ltc_speed = 0]

\* lines 248-418, up to the entry of a resampling loop
DestroysInformation_never(L, a, b) == FALSE

\* abs (bufrspdiff) > newbuflen || abs (bufrspdiff) > oldbuflen, line 378, of
\* L unread samples at speed a when the speed becomes b # 0
DestroysInformation(L, a, b) ==
    LET bufrspdiff == Rint(L * Abs(a) - L * Abs(b), Abs(b))
    IN  Abs(bufrspdiff) * Abs(b) > L * Abs(a) \/ Abs(bufrspdiff) > L

\* lines 369-417 up to the entry of the loops: s holds L = len - off unread
\* samples rendered at speed s.ltc_speed, the speed becomes new # 0
Resample(s, raw, new, cs) ==
    LET L    == s.ltc_buf_len - s.ltc_buf_off
        pf   == L * s.ltc_speed
        a    == Abs(s.ltc_speed)
        b    == Abs(new)
        \* bufrspdiff = rint(newbuflen - oldbuflen), newbuflen = L * a / b
        bufrspdiff == Rint(L * a - L * b, b)
        ins  == CeilDiv(L * a - L * b, b)
        rem  == CeilDiv(L * b - L * a, b)
    IN  IF DestroysInformation(L, s.ltc_speed, new)
        THEN Res(ltc_tx_reset(s, "resample"), "align", "run",
                 raw, new, cs, 0, 0, 0, 1)
        ELSE IF bufrspdiff # 0 /\ L * a > L * b
        THEN Res(s, "insert", "run", raw, new, cs, pf,
                 s.ltc_buf_off, L * a, b * ins)
        ELSE IF bufrspdiff # 0 /\ L * a < L * b
        THEN IF L <= rem
             THEN Res([s EXCEPT !.ltc_buf_off = 0, !.ltc_buf_len = 0,
                                !.ltc_enc_buf = << >>],
                      "align", "run", raw, new, cs, pf, 0, 0, 1)
             ELSE Res(s, "remove", "run", raw, new, cs, pf,
                      s.ltc_buf_off, L * a, b * rem)
        ELSE Res(s, "align", "run", raw, new, cs, pf, 0, 0, 1)

Tracker(s0, start, end, cont, lat, tcf) ==
    LET raw0 == ((end - start) * SpeedScale) \div n_samples
        cs   == CycleStart(start, raw0, lat, tcf)
        raw  == Rescale(raw0)
        s1   == IF SIGNUM(raw) # SIGNUM(s0.ltc_speed)
                THEN ltc_tx_reset(s0, "direction") ELSE s0
        speed_changed == s1.ltc_speed # raw
        stopped == NotRolling(start, end, raw)
        new  == IF stopped THEN 0 ELSE raw
        s2   == IF stopped /\ start # s1.ltc_prev_cycle
                THEN ltc_tx_reset(s1, "noroll_seek") ELSE s1
        s3   == IF StartedRolling(s2.ltc_speed, new)
                THEN ltc_tx_reset(s2, "start") ELSE s2
        \* poff of line 354
        pf   == (s3.ltc_buf_len - s3.ltc_buf_off) * s3.ltc_speed
    IN  IF stopped /\ ~cont
        THEN Res(ReturnIdle(s1), "idle", "not_rolling",
                 raw, new, cs, 0, 0, 0, 1)
        ELSE IF OutOfBounds(new)
        THEN Res(ltc_tx_reset(s2, "out_of_bounds"), "idle", "out_of_bounds",
                 raw, new, cs, 0, 0, 0, 1)
        ELSE IF ~(speed_changed /\ new # 0)
        THEN Res(s3, "align", "run", raw, new, cs, pf, 0, 0, 1)
        ELSE Resample(s3, raw, new, cs)

\* if (!ltc_encoder || !ltc_enc_buf) return;  (line 180)
EncoderGone_never(a) == FALSE

EncoderGone(a) == ~a

\* if (cur_timecode != ltc_enc_tcformat)  (line 227)
FormatChanged_never(cur, enc) == FALSE

FormatChanged(cur, enc) == cur # enc

\* if (timecode_to_frames_per_second (cur_timecode) > 30) return;  (line 244)
AboveLtcRate_never(tcf) == FALSE

AboveLtcRate(tcf) == timecode_to_frames_per_second(tcf) > 30

\* Session::ltc_tx_cleanup: ltc_enc_buf = NULL; ltc_encoder = NULL
ltc_tx_cleanup_keeps(a) == a

ltc_tx_cleanup(a) == FALSE

\* the returns of lines 184-202: no current transport master, freewheeling,
\* send-ltc off, external sync to MIDI clock
Gated_never(g) == FALSE

Gated(g) == g # "none"

\* lines 165-246, then the tracker; reinit_ok is what ltc_encoder_reinit
\* answers when the format changed, cont what
\* Config->get_ltc_send_continuously() answers when the block reads it
Cycle(s0, start, end, reinit_ok, cont) ==
    IF EncoderGone(alive) THEN Untracked(s0, "no_encoder")
    ELSE IF Gated(gate) THEN Untracked(s0, "gated")
    ELSE IF FormatChanged(cfg_format, ltc_enc_tcformat) /\ ~reinit_ok
    THEN Untracked(s0, "reinit_failed")
    ELSE LET s1 == IF FormatChanged(cfg_format, ltc_enc_tcformat)
                   THEN ltc_tx_reset([s0 EXCEPT !.ltc_prev_cycle = -1],
                                     "format")
                   ELSE s0
         IN  IF AboveLtcRate(cfg_format)
             THEN Untracked(s1, "fps")
             ELSE Tracker(s1, start, end, cont, ltc_out_latency, cfg_format)

\* one call of send_ltc_for_cycle begins, its arguments and the answers of
\* the configuration drawn from the given sets
BlockStep(starts, deltas, conts, maxb) ==
    /\ pc = "idle"
    /\ nblocks < maxb
    /\ \E start \in starts, d \in deltas,
          reinit_ok \in BOOLEAN, cont \in conts :
         LET end   == start + d
             s0    == [GS EXCEPT !.g_sites = {}]
             r     == Cycle(s0, start, end, reinit_ok, cont)
         IN  /\ end >= 0
             \* an answer that the block does not ask for is not enumerated
             /\ reinit_ok \/ (alive /\ gate = "none"
                                /\ cfg_format # ltc_enc_tcformat)
             /\ cont \/ (r.tracked /\ NotRolling(start, end, r.raw))
             /\ SetGS(r.s)
             /\ alive' = IF r.ret = "reinit_failed"
                         THEN ltc_tx_cleanup(alive) ELSE alive
             /\ ltc_enc_tcformat' =
                   IF r.ret \in {"no_encoder", "gated", "reinit_failed"}
                   THEN ltc_enc_tcformat ELSE cfg_format
             /\ pc' = r.next
             /\ g_ret' = r.ret
             /\ start_sample' = start
             /\ end_sample' = end
             /\ transport' = end
             /\ new_ltc_speed' = r.new
             /\ cycle_start_sample' = r.cs
             /\ poff' = r.poff
             /\ rp' = r.rp
             /\ incnt' = 0
             /\ avg_num' = r.avg_num
             /\ avg_den' = r.avg_den
             /\ txf' = 0
             /\ out' = Silence
             /\ g_blk' = [tracked |-> r.tracked, raw |-> r.raw, eff |-> r.new,
                          cont |-> cont, start |-> start, end |-> end,
                          ltc_speed |-> ltc_speed,
                          ltc_prev_cycle |-> ltc_prev_cycle,
                          ltc_enc_pos |-> ltc_enc_pos,
                          restarting |-> restarting,
                          unread |-> ltc_buf_len - ltc_buf_off]
             /\ g_prevblk' = IF g_blk.tracked THEN g_blk ELSE g_prevblk
             /\ g_nwritten' = 0
             /\ g_carry' = r.s.ltc_buf_len - r.s.ltc_buf_off
             /\ g_out_carried' = 0
             /\ g_enc_arg' = -1
             /\ g_nenc' = 0
             /\ g_hard' = FALSE
             /\ g_locked' = (/\ g_locked
                             /\ start = transport
                             /\ r.next = "align"
                             /\ r.new = ltc_speed
                             /\ r.s.ltc_enc_pos >= 0)
             /\ g_byte10' = FALSE
             /\ nblocks' = nblocks + 1
    /\ UNCHANGED <<cfg_format, gate, master_resolution, port_latency,
                   ltc_out_latency, nfail, fn_in, fn_out, n_samples,
                   spf_format>>

BlockBegin ==
    BlockStep({transport} \cup SeekTargets, Deltas, BOOLEAN, MaxBlocks)

(***************************************************************************)
(* (2) re-sampling of the unread samples, one loop iteration per step      *)
(***************************************************************************)
\* for (rp = ltc_buf_off; rp < ltc_buf_len - 1; ++rp), lines 388-397
InsertStep ==
    /\ pc = "insert"
    /\ IF rp < ltc_buf_len - 1
       THEN LET ro == rp - ltc_buf_off
                v1 == ltc_enc_buf[rp + 1]
                v2 == ltc_enc_buf[rp + 2]
                skip == \/ ro * avg_den < incnt * avg_num
                        \/ v1 # v2 /\ ro * avg_den < (incnt + 1) * avg_num
            IN  /\ rp' = rp + 1
                /\ pc' = pc
                /\ IF skip
                   THEN UNCHANGED <<ltc_enc_buf, ltc_buf_len, incnt>>
                   ELSE /\ ltc_enc_buf' =
                              SubSeq(ltc_enc_buf, 1, rp + 1) \o <<v1>>
                                 \o SubSeq(ltc_enc_buf, rp + 2, ltc_buf_len)
                        /\ incnt' = incnt + 1
                        /\ ltc_buf_len' = ltc_buf_len + 1
       ELSE /\ pc' = "align"
            /\ UNCHANGED <<rp, ltc_enc_buf, ltc_buf_len, incnt>>
    /\ g_carry' = ltc_buf_len' - ltc_buf_off
    /\ UNCHANGED <<ltc_speed, ltc_prev_cycle, ltc_enc_pos, ltc_enc_byte,
                   ltc_enc_cnt, ltc_buf_off, restarting, enc_tc, env_vars,
                   start_sample, end_sample, new_ltc_speed,
                   cycle_start_sample, poff, avg_num, avg_den,
                   g_blk, g_prevblk, g_nwritten, g_out_carried, g_enc_arg,
                   g_nenc, g_hard, g_byte10, g_locked, ltc_out_latency,
                   transport, txf,
                   out, g_sites, g_ret, nblocks, nfail>>

\* for (rp = ltc_buf_off; rp < ltc_buf_len - 1; ++rp), lines 406-415
RemoveStep ==
    /\ pc = "remove"
    /\ IF rp < ltc_buf_len - 1
       THEN LET ro == rp - ltc_buf_off
                v1 == ltc_enc_buf[rp + 1]
                v2 == ltc_enc_buf[rp + 2]
                skip == \/ ro * avg_den < incnt * avg_num
                        \/ v1 # v2 /\ ro * avg_den < (incnt + 1) * avg_num
            IN  /\ rp' = rp + 1
                /\ pc' = pc
                /\ IF skip
                   THEN UNCHANGED <<ltc_enc_buf, ltc_buf_len, incnt>>
                   ELSE /\ ltc_enc_buf' =
                              SubSeq(ltc_enc_buf, 1, rp)
                                 \o SubSeq(ltc_enc_buf, rp + 2, ltc_buf_len)
                        /\ incnt' = incnt + 1
                        /\ ltc_buf_len' = ltc_buf_len - 1
       ELSE /\ pc' = "align"
            /\ UNCHANGED <<rp, ltc_enc_buf, ltc_buf_len, incnt>>
    /\ g_carry' = ltc_buf_len' - ltc_buf_off
    /\ UNCHANGED <<ltc_speed, ltc_prev_cycle, ltc_enc_pos, ltc_enc_byte,
                   ltc_enc_cnt, ltc_buf_off, restarting, enc_tc, env_vars,
                   start_sample, end_sample, new_ltc_speed,
                   cycle_start_sample, poff, avg_num, avg_den,
                   g_blk, g_prevblk, g_nwritten, g_out_carried, g_enc_arg,
                   g_nenc, g_hard, g_byte10, g_locked, ltc_out_latency,
                   transport, txf,
                   out, g_sites, g_ret, nblocks, nfail>>

(***************************************************************************)
(* (3)-(5) bit/sample alignment, re-align or soft correction               *)
(***************************************************************************)
\* the factors are applied one in place of the other, never both
maxdiff_one_factor(speed, tcf, nominal, rate, resolution) ==
    IF resolution >= 0 THEN resolution
    ELSE CeilDiv(Abs(speed), SpeedScale) * 2
           * (IF nominal # rate THEN 3
              ELSE IF tcf \in {"timecode_23976", "timecode_24976"} THEN 15
              ELSE 1)

\* maximum difference of bit alignment in audio-samples, lines 466-478
\* maxdiff of lines 466-478; resolution >= 0 is the resolution of an external
\* transport master, resolution < 0 means the transport master is the engine
maxdiff(speed, tcf, nominal, rate, resolution) ==
    IF resolution >= 0 THEN resolution
    ELSE CeilDiv(Abs(speed), SpeedScale) * 2
           * (IF nominal # rate THEN 3 ELSE 1)
           * (IF tcf \in {"timecode_23976", "timecode_24976"} THEN 15 ELSE 1)

MaxDiff(speed, tcf) ==
    maxdiff(speed, tcf, NominalRate, EngineRate, master_resolution)

\* fmod (x, wrap24h) of x = i + f / SpeedScale, in fixed point
FmodWrap(i, f) ==
    LET X  == i + FloorDiv(f, SpeedScale)
        ff == f % SpeedScale
        ni == IF ff = 0 THEN -X ELSE -X - 1
        nf == IF ff = 0 THEN 0 ELSE SpeedScale - ff
    IN  IF X >= 0 THEN (X % wrap24h) * SpeedScale + ff
        ELSE -((ni % wrap24h) * SpeedScale + nf)

NeedsRealign_pos_only(s, pf, cs, tcf) == s.ltc_enc_pos < 0

\* the test of line 489-490
NeedsRealign(s, pf, cs, tcf) ==
    \/ s.ltc_enc_pos < 0
    \/ /\ s.ltc_speed # 0
       /\ Abs(Fmod(s.ltc_enc_pos + CeilDiv(s.ltc_enc_cnt - pf, SpeedScale),
                   wrap24h)
              - (cs % wrap24h)) > MaxDiff(s.ltc_speed, tcf)

\* ltc_speed != 0 && (fptcf / ltc_speed / 80) > 3
SoftCorrects(speed, fp) ==
    speed > 0 /\ fp * SpeedScale > 240 * speed

\* txf = rint (cyc_off / fabs (ltc_speed)) as a pframes_t. With ltc_speed = 0
\* this converts NaN to an unsigned integer, which is undefined: 0 (cvttsd2si,
\* fcvtzu) or a value beyond every block length (0xffffffff, vcvttsd2usi),
\* which acts as n_samples does
StartOffsets(cyc_off, speed) ==
    IF speed = 0 THEN {0, n_samples}
    ELSE {Rint(cyc_off * SpeedScale, Abs(speed))}

\* the byte that starts at or after the current position, lines 522-542:
\* <<ltc_enc_byte, ltc_enc_cnt, cyc_off, byte was 10>>
RealignByte_nowrap(speed, soff, fp) ==
    LET byte == CeilDiv(10 * soff, fp)
        cnt  == (byte * fp * SpeedScale) \div 10
    IN  <<byte, cnt, CeilDiv(cnt, SpeedScale) - soff, byte = 10>>

RealignByte(speed, soff, fp) ==
    IF speed < 0
    THEN LET byte == FloorDiv(10 * soff, fp)
             cnt  == (byte * fp * SpeedScale) \div 10
         IN  <<byte, cnt, soff - CeilDiv(cnt, SpeedScale), FALSE>>
    ELSE LET byte == CeilDiv(10 * soff, fp)
             cnt  == (byte * fp * SpeedScale) \div 10
         IN  <<IF byte = 10 THEN 0 ELSE byte, cnt,
               CeilDiv(cnt, SpeedScale) - soff, byte = 10>>

\* soff < 0 || soff >= fptcf
OutsideFrame_never(soff, fp) == FALSE

OutsideFrame(soff, fp) == soff < 0 \/ soff >= fp

\* cyc_off >= 0 && cyc_off <= (int32_t) n_samples
FitsBlock_always(cyc_off) == TRUE

FitsBlock(cyc_off) == cyc_off >= 0 /\ cyc_off <= n_samples

Align ==
    /\ pc = "align"
    /\ LET tcf == cfg_format
           fp  == samples_per_timecode_frame
           cs  == cycle_start_sample
           s1  == [GS EXCEPT !.ltc_prev_cycle = start_sample,
                             !.ltc_speed = new_ltc_speed]
           tc_start == sample_to_timecode(cs, tcf)
           tc_sample_start == timecode_to_sample(tc_start, tcf)
           soff == IF new_ltc_speed = 0 THEN 0 ELSE cs - tc_sample_start
           hard == NeedsRealign(s1, poff, cs, tcf)
           s2  == [ltc_tx_reset(s1, "realign") EXCEPT
                     !.enc_tc = [tc_start EXCEPT !.hours = @ % 24]]
           rb  == RealignByte(s1.ltc_speed, soff, fp)
           s3  == [s2 EXCEPT
                     !.ltc_enc_byte = rb[1],
                     !.ltc_enc_cnt = rb[2],
                     !.enc_tc = IF rb[4]
                                THEN ltc_encoder_inc_timecode(@, tcf) ELSE @,
                     !.restarting =
                        IF \/ s1.ltc_speed < 0 /\ rb[1] # 9
                           \/ s1.ltc_speed >= 0 /\ rb[1] # 0
                        THEN TRUE ELSE @]
           cyc_off == rb[3]
           drift == FmodWrap(s1.ltc_enc_pos - cs, s1.ltc_enc_cnt - poff)
       IN  /\ g_hard' = hard
           /\ g_locked' = (~hard /\ (g_locked \/ ~s1.restarting))
           /\ IF hard
              THEN IF OutsideFrame(soff, fp)
                   THEN /\ SetGS(ltc_tx_reset(s2, "race"))
                        /\ pc' = "idle"
                        /\ g_ret' = "race"
                        /\ g_byte10' = FALSE
                        /\ txf' = txf
                   ELSE /\ g_byte10' = rb[4]
                        /\ IF FitsBlock(cyc_off)
                           THEN /\ txf' \in StartOffsets(cyc_off, s1.ltc_speed)
                                /\ SetGS([s3 EXCEPT !.ltc_enc_pos =
                                             Fmod(tc_sample_start, wrap24h)])
                                /\ pc' = "drain"
                                /\ g_ret' = g_ret
                           ELSE /\ SetGS(s3)
                                /\ pc' = "idle"
                                /\ g_ret' = "defer"
                                /\ txf' = txf
              ELSE /\ SetGS(IF SoftCorrects(s1.ltc_speed, fp)
                            THEN [s1 EXCEPT !.ltc_speed =
                                    @ - Rint(drift, EngineRate)]
                            ELSE s1)
                   /\ pc' = "drain"
                   /\ UNCHANGED <<g_ret, g_byte10, txf>>
    /\ g_carry' = ltc_buf_len' - ltc_buf_off'
    /\ UNCHANGED <<env_vars, local_vars, g_blk, g_prevblk, g_nwritten,
                   g_out_carried, g_enc_arg, g_nenc, ltc_out_latency,
                   transport, out, nblocks, nfail>>

(***************************************************************************)
(* (6) encode and output                                                   *)
(***************************************************************************)
\* a loop (6a) that stores nothing
DrainCount_none(len, off, n) == 0

\* the loop (6a) without its test of txf against n_samples
DrainCount_unbounded(len, off, n) ==
    IF off < len THEN len - off ELSE 0

\* samples moved by the loop (6a), lines 593-597
DrainCount(len, off, n) ==
    IF off < len /\ n < n_samples THEN Min(len - off, n_samples - n) ELSE 0

\* (6a) send remaining buffer, and the test of line 602
Drain ==
    /\ pc = "drain"
    /\ LET k == DrainCount(ltc_buf_len, ltc_buf_off, txf)
       IN  /\ out' = [i \in 1..n_samples |->
                        IF i > txf /\ i <= txf + k
                        THEN (ltc_enc_buf[ltc_buf_off + (i - txf)] - 128)
                                * OutputVolume
                        ELSE out[i]]
           /\ ltc_buf_off' = ltc_buf_off + k
           /\ txf' = txf + k
           /\ g_nwritten' = g_nwritten + k
           /\ g_out_carried' = g_out_carried + Min(k, g_carry)
           /\ g_carry' = g_carry - Min(k, g_carry)
    /\ IF txf' >= n_samples
       THEN pc' = "idle" /\ g_ret' = "done"
       ELSE pc' = "encode" /\ g_ret' = g_ret
    /\ UNCHANGED <<ltc_speed, ltc_prev_cycle, ltc_enc_pos, ltc_enc_byte,
                   ltc_enc_cnt, ltc_buf_len, ltc_enc_buf, restarting, enc_tc,
                   env_vars, local_vars, g_blk, g_prevblk, g_enc_arg, g_nenc,
                   g_hard, g_byte10, g_locked, ltc_out_latency, transport,
                   g_sites,
                   nblocks, nfail>>

\* ltc_encoder_set_bufsize (ltc_encoder, nominal_sample_rate(), 23.0)
EncoderBufSize == 1 + CeilDiv(NominalRate, 23)

\* what libltc renders for one byte of n samples: a level change in mid-byte
Waveform(n) == [i \in 1..n |-> IF 2 * (i - 1) < n THEN EncHi ELSE EncLo]

\* ltc_encoder_encode_byte (encoder, byte, 1 / speed) followed by
\* ltc_encoder_get_buffer: the number of samples, or -1 for an error.
\* One byte lasts fptcf / 10 / |speed| samples; libltc carries the fraction.
EncodeOutcomes(speed, fp) ==
    LET num == fp * SpeedScale
        den == 10 * (IF speed = 0 THEN SpeedScale ELSE Abs(speed))
        ns  == {FloorDiv(num, den), CeilDiv(num, den)}
    IN  {IF n >= EncoderBufSize THEN -1 ELSE n : n \in ns}

\* ltc_buf_len = 0; ltc_buf_off = 0;  (lines 608-609)
ClearBuf_keeps_off(s) ==
    [s EXCEPT !.ltc_buf_len = 0, !.ltc_enc_buf = << >>]

ClearBuf(s) ==
    [s EXCEPT !.ltc_buf_len = 0, !.ltc_buf_off = 0, !.ltc_enc_buf = << >>]

\* if (ltc_enc_byte == 0 && ltc_speed != 0)  (line 658): the byte that was
\* rendered ended a frame of a rolling transport
BumpsTimecode_at_any_speed(byte, speed) == byte = 0

BumpsTimecode(byte, speed) == byte = 0 /\ speed # 0

\* ltc_enc_byte = (ltc_enc_byte + 1) % 10  (line 657)
NextByte_stuck(b) == b

NextByte(b) == (b + 1) % 10

\* if (restarting)  (line 624)
WritesFiller_never(r) == FALSE

WritesFiller(r) == r

\* (6b) encode LTC, bump timecode: lines 608-672 for one byte
Encode ==
    /\ pc = "encode"
    /\ LET tcf == ltc_enc_tcformat
           fp  == samples_per_timecode_frame
           fp10 == (fp * SpeedScale) \div 10
           s0  == ClearBuf(GS)
           b1  == (s0.ltc_enc_byte + 9) % 10
           s1  == IF s0.ltc_speed < 0
                  THEN IF b1 = 9
                       THEN [ltc_tx_recalculate_position(
                                [s0 EXCEPT !.ltc_enc_byte = b1,
                                           !.enc_tc =
                                             ltc_encoder_dec_timecode(@, tcf)],
                                tcf)
                               EXCEPT !.ltc_enc_cnt = fp * SpeedScale]
                       ELSE [s0 EXCEPT !.ltc_enc_byte = b1]
                  ELSE s0
           Finish(n, wave) ==
               LET s2 == [s1 EXCEPT
                            !.ltc_buf_len = @ + n,
                            !.ltc_enc_buf = wave,
                            !.ltc_enc_cnt = IF s1.ltc_speed < 0
                                            THEN @ - fp10 ELSE @ + fp10]
                   b2 == NextByte(s2.ltc_enc_byte)
               IN  IF s2.ltc_speed < 0 THEN s2
                   ELSE IF BumpsTimecode(b2, s2.ltc_speed)
                   THEN [ltc_tx_recalculate_position(
                            [s2 EXCEPT !.ltc_enc_byte = b2,
                                       !.enc_tc =
                                          ltc_encoder_inc_timecode(@, tcf)],
                            tcf)
                           EXCEPT !.ltc_enc_cnt = 0]
                   ELSE IF b2 = 0
                   THEN [s2 EXCEPT !.ltc_enc_byte = b2, !.ltc_enc_cnt = 0,
                                   !.restarting = FALSE]
                   ELSE [s2 EXCEPT !.ltc_enc_byte = b2]
       IN  IF WritesFiller(s1.restarting)
           THEN \* write zero bytes, don't touch the encoder
                /\ IF fp \div 10 <= 0
                   THEN /\ SetGS(ltc_tx_reset(s1, "empty"))
                        /\ pc' = "idle" /\ g_ret' = "empty"
                   ELSE /\ SetGS(Finish(fp \div 10,
                                        [i \in 1..(fp \div 10) |-> Filler]))
                        /\ pc' = "drain" /\ g_ret' = g_ret
                /\ UNCHANGED <<g_enc_arg, g_nenc, nfail>>
           ELSE /\ g_enc_arg' = s1.ltc_enc_byte
                /\ g_nenc' = g_nenc + 1
                /\ \E n \in EncodeOutcomes(s1.ltc_speed, fp)
                             \cup (IF nfail < MaxEncFail THEN {-1, 0} ELSE {}) :
                     /\ nfail' = IF n \in EncodeOutcomes(s1.ltc_speed, fp)
                                 THEN nfail ELSE nfail + 1
                     /\ IF n < 0
                        THEN /\ SetGS(ltc_tx_reset(s1, "encoder_error"))
                             /\ pc' = "idle" /\ g_ret' = "encoder_error"
                        ELSE IF n <= 0
                        THEN /\ SetGS(ltc_tx_reset(s1, "empty"))
                             /\ pc' = "idle" /\ g_ret' = "empty"
                        ELSE /\ SetGS(Finish(n, Waveform(n)))
                             /\ pc' = "drain" /\ g_ret' = g_ret
    /\ g_carry' = 0
    /\ g_locked' = (g_locked /\ pc' = "drain")
    /\ UNCHANGED <<env_vars, local_vars, g_blk, g_prevblk, g_nwritten,
                   g_out_carried, g_hard, g_byte10, ltc_out_latency,
                   transport, txf, out, nblocks>>

(***************************************************************************)
(* Specification                                                           *)
(***************************************************************************)
Next ==
    \/ Xrun
    \/ LatencyUpdated
    \/ BlockBegin
    \/ InsertStep
    \/ RemoveStep
    \/ Align
    \/ Drain
    \/ Encode

Spec == Init /\ [][Next]_vars

\* send_ltc_for_cycle is one call on the process thread: a block that was
\* begun takes its next step
RenderFairness ==
    /\ WF_vars(InsertStep)
    /\ WF_vars(RemoveStep)
    /\ WF_vars(Align)
    /\ WF_vars(Drain)
    /\ WF_vars(Encode)

SpecLive == Init /\ [][Next]_vars /\ RenderFairness

(***************************************************************************)
(* Varispeed: blocks of continuous generation at speeds 0.25, 0.5, 1 and 2,  *)
(* forward, that follow one another or a locate                            *)
(***************************************************************************)
MaxVariBlocks == 2

VariDeltas == {BlockLen \div 4, BlockLen \div 2, BlockLen, 2 * BlockLen}

VariBlock ==
    BlockStep({transport} \cup SeekTargets, VariDeltas, {TRUE}, MaxVariBlocks)

NextVari ==
    \/ VariBlock
    \/ InsertStep
    \/ RemoveStep
    \/ Align
    \/ Drain
    \/ Encode

SpecVari == Init /\ [][NextVari]_vars

(***************************************************************************)
(* A run: from the state after construction, blocks of continuous           *)
(* generation that follow one another at one speed, with an encoder that    *)
(* never fails and no Xrun. The speeds are those whose LTC byte is a whole  *)
(* number of samples: 0, 1/6, 1/4, 1/2, 1, 2 and -1.                        *)
(***************************************************************************)
MaxRunBlocks == 8

RunDeltas ==
    {0, BlockLen \div 6, BlockLen \div 4, BlockLen \div 2, BlockLen,
     2 * BlockLen, -BlockLen}

\* where the transport is when the run begins: at a frame boundary, inside
\* the first and the last byte of a frame, and in the last three frames
\* before the 24 hour wrap
RunStarts ==
    {0, 2, 38, 40, 120, wrap24h - 118, wrap24h - 83, wrap24h - 44,
     wrap24h - 42, wrap24h - 40, wrap24h - 2}

InitRun ==
    /\ InitFields
    /\ InitEnv
    /\ InitLocals
    /\ InitHist
    /\ nblocks = 0
    /\ nfail = MaxEncFail
    /\ transport \in RunStarts
    /\ fn_in = NoFn
    /\ fn_out = NoFn

\* the first block chooses the speed, the later ones keep it
RunBlock ==
    BlockStep({transport},
              IF nblocks = 0 THEN RunDeltas ELSE {g_blk.end - g_blk.start},
              {TRUE}, MaxRunBlocks)

NextRun ==
    \/ RunBlock
    \/ Align
    \/ Drain
    \/ Encode

SpecRun == InitRun /\ [][NextRun]_vars

(***************************************************************************)
(* A run at speed 5/3, where every block advances the transport by half a   *)
(* timecode frame, begun inside the first two bytes of a frame. At 48000    *)
(* samples per second, 30 frames per second and blocks of 1024 samples the  *)
(* like speed is 1.5625 (one frame per block).                              *)
(***************************************************************************)
HalfFrameDelta == (5 * BlockLen) \div 3

HalfFrameStarts == 1..8

InitHalfFrame ==
    /\ InitFields
    /\ InitEnv
    /\ InitLocals
    /\ InitHist
    /\ nblocks = 0
    /\ nfail = MaxEncFail
    /\ transport \in HalfFrameStarts
    /\ fn_in = NoFn
    /\ fn_out = NoFn

HalfFrameBlock ==
    BlockStep({transport}, {HalfFrameDelta}, {TRUE}, MaxRunBlocks)

NextHalfFrame ==
    \/ HalfFrameBlock
    \/ Align
    \/ Drain
    \/ Encode

SpecHalfFrame == InitHalfFrame /\ [][NextHalfFrame]_vars

(***************************************************************************)
(* Format changes: the session's timecode format is changed between blocks  *)
(* of continuous generation, among 25, 30 and 60 frames per second, and     *)
(* ltc_encoder_reinit accepts or refuses the new format. The blocks are     *)
(* stopped or roll at speed 0.5 or 1.                                       *)
(***************************************************************************)
MaxFormatBlocks == 2

Formats == {"timecode_25", "timecode_30", "timecode_60"}

FormatDeltas == {0, BlockLen \div 2, BlockLen}

\* config.get_timecode_format() answers another format from now on
FormatChange ==
    /\ pc = "idle"
    /\ \E f \in Formats \ {cfg_format} :
          /\ cfg_format' = f
          /\ spf_format' = f
    /\ UNCHANGED <<session_vars, local_vars, hist_vars, ltc_out_latency,
                   transport, pc, txf, out, g_sites, g_ret, nblocks, nfail,
                   gate, master_resolution, port_latency, ltc_enc_tcformat,
                   alive, fn_in, fn_out, n_samples>>

FormatBlock ==
    BlockStep({transport}, FormatDeltas, {TRUE}, MaxFormatBlocks)

NextFormat ==
    \/ FormatChange
    \/ FormatBlock
    \/ InsertStep
    \/ RemoveStep
    \/ Align
    \/ Drain
    \/ Encode

InitFormat ==
    /\ InitFields
    /\ InitEnv
    /\ InitLocals
    /\ InitHist
    /\ nblocks = 0
    /\ nfail = MaxEncFail
    /\ transport \in {0, 2}
    /\ fn_in = NoFn
    /\ fn_out = NoFn

SpecFormat == InitFormat /\ [][NextFormat]_vars

\* the same runs while the conditions of lines 184-202 come and go between
\* the blocks
MaxGateBlocks == 2

Gates == {"none", "no_master", "freewheeling", "send_ltc_off", "midi_clock"}

\* the transport master, the engine or the configuration answers otherwise
\* from now on
GateChange ==
    /\ pc = "idle"
    /\ \E g \in Gates \ {gate} : gate' = g
    /\ UNCHANGED <<session_vars, local_vars, hist_vars, ltc_out_latency,
                   transport, pc, txf, out, g_sites, g_ret, nblocks, nfail,
                   cfg_format, spf_format, master_resolution, port_latency,
                   ltc_enc_tcformat, alive, fn_in, fn_out, n_samples>>

GateBlock ==
    BlockStep({transport}, FormatDeltas, {TRUE}, MaxGateBlocks)

NextGate ==
    \/ GateChange
    \/ FormatChange
    \/ GateBlock
    \/ InsertStep
    \/ RemoveStep
    \/ Align
    \/ Drain
    \/ Encode

SpecGate == InitFormat /\ [][NextGate]_vars

\* the same runs with the Xrun and LatencyUpdated signals between the blocks
NextCleanup ==
    \/ FormatChange
    \/ FormatBlock
    \/ Xrun
    \/ LatencyUpdated
    \/ InsertStep
    \/ RemoveStep
    \/ Align
    \/ Drain
    \/ Encode

SpecCleanup == InitFormat /\ [][NextCleanup]_vars

(***************************************************************************)
(* The format of the configuration changes between blocks, and the Session *)
(* computes samples_per_timecode_frame () anew some time later: until then  *)
(* timecode_frames_per_second (), which reads the configuration, and        *)
(* samples_per_timecode_frame () answer for different formats.              *)
(***************************************************************************)
MaxRaceBlocks == 2

RaceFormats == {"timecode_25", "timecode_30"}

RaceDeltas == {0, BlockLen}

RaceStarts == {0, 2, 44}

\* config.get_timecode_format() answers another format from now on
ConfigChange ==
    /\ pc = "idle"
    /\ \E f \in RaceFormats \ {cfg_format} : cfg_format' = f
    /\ UNCHANGED <<session_vars, local_vars, hist_vars, ltc_out_latency,
                   transport, pc, txf, out, g_sites, g_ret, nblocks, nfail,
                   gate, master_resolution, port_latency, ltc_enc_tcformat,
                   alive, fn_in, fn_out, n_samples, spf_format>>

\* the Session computes samples_per_timecode_frame () for the format of the
\* configuration
SyncTimeVars ==
    /\ pc = "idle"
    /\ spf_format # cfg_format
    /\ spf_format' = cfg_format
    /\ UNCHANGED <<session_vars, local_vars, hist_vars, ltc_out_latency,
                   transport, pc, txf, out, g_sites, g_ret, nblocks, nfail,
                   gate, master_resolution, port_latency, ltc_enc_tcformat,
                   alive, fn_in, fn_out, n_samples, cfg_format>>

RaceBlock ==
    BlockStep({transport}, RaceDeltas, {TRUE}, MaxRaceBlocks)

NextRace ==
    \/ ConfigChange
    \/ SyncTimeVars
    \/ RaceBlock
    \/ Align
    \/ Drain
    \/ Encode

InitRace ==
    /\ InitFields
    /\ InitEnv
    /\ InitLocals
    /\ InitHist
    /\ nblocks = 0
    /\ nfail = MaxEncFail
    /\ transport \in RaceStarts
    /\ fn_in = NoFn
    /\ fn_out = NoFn

SpecRace == InitRace /\ [][NextRace]_vars

(***************************************************************************)
(* Blocks shorter than an LTC byte: 2 samples against the 4 of a byte at    *)
(* 30 fps (as blocks of 64 samples are against the 160 of a byte at 48000   *)
(* samples/s), stopped or rolling at speed 1.                               *)
(***************************************************************************)
ShortBlockLen == 2

MaxShortBlocks == 4

ShortDeltas == {0, ShortBlockLen}

ShortStarts == 0..5

ShortBlock ==
    BlockStep({transport}, ShortDeltas, {TRUE}, MaxShortBlocks)

NextShort ==
    \/ ShortBlock
    \/ Align
    \/ Drain
    \/ Encode

InitShort ==
    /\ InitFields
    /\ InitEnvAt(ShortBlockLen)
    /\ InitLocals
    /\ InitHist
    /\ nblocks = 0
    /\ nfail = MaxEncFail
    /\ transport \in ShortStarts
    /\ fn_in = NoFn
    /\ fn_out = NoFn

SpecShort == InitShort /\ [][NextShort]_vars

(***************************************************************************)
(* Slow runs: blocks of 8 samples that advance the transport by one sample, *)
(* forward or reverse (speed 1/8), so that a bit of the LTC frame lasts 4   *)
(* samples (as a bit of 20 samples does at 48000 samples/s, 30 fps, speed   *)
(* 1).                                                                     *)
(***************************************************************************)
SlowBlockLen == 8

MaxSlowBlocks == 6

SlowDeltas == {-1, 1}

SlowStarts == {0, 1, 3, 40, 41}

SlowBlock ==
    BlockStep({transport}, SlowDeltas, {TRUE}, MaxSlowBlocks)

NextSlow ==
    \/ SlowBlock
    \/ Align
    \/ Drain
    \/ Encode

InitSlow ==
    /\ InitFields
    /\ InitEnvAt(SlowBlockLen)
    /\ InitLocals
    /\ InitHist
    /\ nblocks = 0
    /\ nfail = MaxEncFail
    /\ transport \in SlowStarts
    /\ fn_in = NoFn
    /\ fn_out = NoFn

SpecSlow == InitSlow /\ [][NextSlow]_vars

(***************************************************************************)
(* LTC_RISE_TIME applied on its own to the speeds of a block, in steps of   *)
(* a tenth up to 2 and at the bound 10, forward and reverse, at the sample  *)
(* rates 44100, 48000 and 96000.                                            *)
(***************************************************************************)
RiseSpeeds ==
    {k * (SpeedScale \div 10) : k \in (-20..20) \cup {-100, 100}}

RiseRates == {44100, 48000, 96000}

InitRise ==
    /\ InitFields
    /\ InitEnv
    /\ InitLocals
    /\ InitHist
    /\ nblocks = 0
    /\ nfail = 0
    /\ transport = 0
    /\ fn_in \in RiseSpeeds \X RiseRates
    /\ fn_out = NoFn

\* the value handed to ltc_encoder_set_filter
ApplyRiseTime ==
    /\ fn_in # NoFn
    /\ fn_out = NoFn
    /\ fn_out' = <<LTC_RISE_TIME(fn_in[1], fn_in[2])>>
    /\ UNCHANGED <<session_vars, env_vars_but_fn, fn_in, local_vars,
                   hist_vars, ltc_out_latency, transport, pc, txf, out,
                   g_sites, g_ret, nblocks, nfail>>

NextRise == ApplyRiseTime

SpecRise == InitRise /\ [][NextRise]_vars

(***************************************************************************)
(* Slowest runs: blocks of 10 samples at 25 fps that advance the transport  *)
(* by one or two samples (speeds 0.1 and 0.2), follow one another or a jump *)
(* of the transport that stays within the resolution of an external        *)
(* transport master, so that the jitter correction of line 583 acts on the  *)
(* slowest admitted speed while a byte is in the scratch buffer.            *)
(***************************************************************************)
ScratchBlockLen == 10

MaxScratchBlocks == 4

ScratchDeltas == {1, 2}

\* the transport's jumps ahead between two blocks
ScratchJumps == {0, 6, 12}

\* transport_master()->resolution() of the external master, or -1
ScratchResolutions == {-1, 12}

\* calloc ((nominal_sample_rate() / 23), sizeof (ltcsnd_sample_t)), line 83
ScratchCapacity == NominalRate \div 23

ScratchBlock ==
    BlockStep({transport + j : j \in ScratchJumps}, ScratchDeltas, {TRUE},
              MaxScratchBlocks)

NextScratch ==
    \/ ScratchBlock
    \/ InsertStep
    \/ RemoveStep
    \/ Align
    \/ Drain
    \/ Encode

InitScratch ==
    /\ InitFields
    /\ n_samples = ScratchBlockLen
    /\ ltc_enc_tcformat = "timecode_25"
    /\ cfg_format = "timecode_25"
    /\ spf_format = cfg_format
    /\ alive = TRUE
    /\ port_latency = 0
    /\ ltc_out_latency = port_latency
    /\ gate = "none"
    /\ master_resolution \in ScratchResolutions
    /\ InitLocals
    /\ InitHist
    /\ nblocks = 0
    /\ nfail = MaxEncFail
    /\ transport = 0
    /\ fn_in = NoFn
    /\ fn_out = NoFn

SpecScratch == InitScratch /\ [][NextScratch]_vars

(***************************************************************************)
(* cycle_start_sample of lines 256-295 beside the not-rolling test of line  *)
(* 318, applied on their own to a block, a port latency and the frame       *)
(* length and TV standard of a format: 30 fps and 25 fps at the engine rate *)
(* of the blocks above, 25 fps and 30 fps drop-frame at 48000 samples/s.    *)
(***************************************************************************)
AlignedStarts == {0, 1, 5, 100}

AlignedDeltas == {-BlockLen, -1, 0, 1, BlockLen, 2 * BlockLen}

AlignedLatencies == {0, 2, 7}

AlignedFrames ==
    {<<40, "LTC_TV_FILM_24">>, <<48, "LTC_TV_625_50">>,
     <<1920, "LTC_TV_625_50">>, <<1600, "LTC_TV_525_60">>}

InitAligned ==
    /\ InitFields
    /\ InitEnv
    /\ InitLocals
    /\ InitHist
    /\ nblocks = 0
    /\ nfail = 0
    /\ transport = 0
    /\ fn_in \in AlignedStarts \X AlignedDeltas \X AlignedLatencies
                  \X AlignedFrames
    /\ fn_out = NoFn

\* new_ltc_speed of line 256 for a block that advances by delta
RawSpeed(delta) == (delta * SpeedScale) \div BlockLen

\* cycle_start_sample, and whether line 318 takes the block as not rolling
ApplyCycleStart ==
    /\ fn_in # NoFn
    /\ fn_out = NoFn
    /\ LET start == fn_in[1]
           raw0  == RawSpeed(fn_in[2])
       IN  fn_out' =
             <<CycleStartAt(start, raw0, fn_in[3],
                            ltc_frame_alignment(fn_in[4][1], fn_in[4][2])),
               NotRolling(start, start + fn_in[2], Rescale(raw0))>>
    /\ UNCHANGED <<session_vars, env_vars_but_fn, fn_in, local_vars,
                   hist_vars, ltc_out_latency, transport, pc, txf, out,
                   g_sites, g_ret, nblocks, nfail>>

NextAligned == ApplyCycleStart

SpecAligned == InitAligned /\ [][NextAligned]_vars

(***************************************************************************)
(* Notifications: the Xrun and LatencyUpdated signals are connected with    *)
(* connect_same_thread (lines 88-89), so that their slots run in whichever  *)
(* thread emits the signal, at whatever point of a block that may be; the   *)
(* slots take no lock and set no flag. The latency of the port changes      *)
(* between blocks. The blocks are stopped or roll at speed 1.               *)
(***************************************************************************)
MaxAsyncBlocks == 2

AsyncDeltas == {0, BlockLen}

PortLatencies == {0, 2}

\* the latency of the connected port becomes another
PortLatencyChange ==
    /\ pc = "idle"
    /\ \E l \in PortLatencies \ {port_latency} : port_latency' = l
    /\ UNCHANGED <<session_vars, local_vars, hist_vars, ltc_out_latency,
                   transport, pc, txf, out, g_sites, g_ret, nblocks, nfail,
                   cfg_format, gate, master_resolution, ltc_enc_tcformat,
                   alive, fn_in, fn_out, n_samples, spf_format>>

\* the Xrun signal is emitted by another thread: between two blocks, or
\* while a block is between its speed tracking and its alignment
XrunSignal ==
    /\ pc \in {"idle", "align"}
    /\ XrunSlot

\* the LatencyUpdated signal is emitted, a block in flight or not
LatencySignal == \E playback \in BOOLEAN : LatencySlot(playback)

AsyncBlock ==
    BlockStep({transport}, AsyncDeltas, {TRUE}, MaxAsyncBlocks)

NextAsync ==
    \/ PortLatencyChange
    \/ XrunSignal
    \/ LatencySignal
    \/ AsyncBlock
    \/ Align
    \/ Drain
    \/ Encode

InitAsync ==
    /\ InitFields
    /\ InitEnv
    /\ InitLocals
    /\ InitHist
    /\ nblocks = 0
    /\ nfail = MaxEncFail
    /\ transport \in {0, 2}
    /\ fn_in = NoFn
    /\ fn_out = NoFn

SpecAsync == InitAsync /\ [][NextAsync]_vars

(***************************************************************************)
(* The resampling of lines 369-417, applied on its own to the unread tail   *)
(* of a rendered byte. At 48000 samples per second and 30 frames per        *)
(* second a bit of the LTC frame takes 20 / speed samples: 2 at speed 10,   *)
(* 3 at speed 6.67, 4 at speed 5. A 0 bit is one run of that length, a 1    *)
(* bit two runs that share it (biphase mark), and the level toggles at      *)
(* every bit boundary.                                                     *)
(***************************************************************************)
MaxResBits == 4

\* the speeds the tail was rendered at, and the speeds it changes to
ResOldSpeeds == {5 * SpeedScale, (20 * SpeedScale) \div 3, 10 * SpeedScale}

ResNewSpeeds ==
    {5 * SpeedScale, 6 * SpeedScale, 7 * SpeedScale, 8 * SpeedScale,
     10 * SpeedScale}

ResCell(speed) == (20 * SpeedScale) \div Abs(speed)

Toggle(level) == IF level = EncHi THEN EncLo ELSE EncHi

RECURSIVE Biphase(_, _, _)
Biphase(bits, cell, level) ==
    IF bits = << >> THEN << >>
    ELSE LET l1 == Toggle(level)
             l2 == Toggle(l1)
         IN  IF bits[1] = 0
             THEN [i \in 1..cell |-> l1] \o Biphase(Tail(bits), cell, l1)
             ELSE [i \in 1..cell |-> IF 2 * i <= cell THEN l1 ELSE l2]
                     \o Biphase(Tail(bits), cell, l2)

BitSeqs(n) == UNION {[1..k -> {0, 1}] : k \in 1..n}

InitResample ==
    /\ InitEnv
    /\ InitLocals
    /\ InitHist
    /\ nblocks = 0
    /\ nfail = 0
    /\ transport = 0
    /\ fn_out = NoFn
    /\ ltc_prev_cycle = 0
    /\ ltc_enc_pos = 0
    /\ ltc_enc_byte = 1
    /\ ltc_enc_cnt = (fptcf(cfg_format) * SpeedScale) \div 10
    /\ restarting = FALSE
    /\ enc_tc = ZeroTc
    /\ \E a \in ResOldSpeeds, b \in ResNewSpeeds, bits \in BitSeqs(MaxResBits),
          level \in {EncLo, EncHi} :
         /\ a # b
         /\ ltc_speed = a
         /\ fn_in = <<b>>
         /\ ltc_enc_buf = Biphase(bits, ResCell(a), level)
         /\ ltc_buf_len = Len(bits) * ResCell(a)
         /\ ltc_buf_off \in 0..(ResCell(a) - 1)

\* lines 354-386 and 399-405: the entry of the resampling
ResampleBegin ==
    /\ pc = "idle"
    /\ fn_in # NoFn
    /\ fn_out = NoFn
    /\ LET r == Resample([GS EXCEPT !.g_sites = {}], fn_in[1], fn_in[1], 0)
       IN  /\ SetGS(r.s)
           /\ pc' = r.next
           /\ new_ltc_speed' = r.new
           /\ poff' = r.poff
           /\ rp' = r.rp
           /\ incnt' = 0
           /\ avg_num' = r.avg_num
           /\ avg_den' = r.avg_den
           /\ g_carry' = r.s.ltc_buf_len - r.s.ltc_buf_off
    /\ fn_out' = <<ltc_buf_len - ltc_buf_off, ltc_buf_off,
                   SubSeq(ltc_enc_buf, ltc_buf_off + 1, ltc_buf_len)>>
    /\ UNCHANGED <<env_vars_but_fn, fn_in, start_sample, end_sample,
                   cycle_start_sample, g_blk, g_prevblk, g_nwritten,
                   g_out_carried, g_enc_arg, g_nenc, g_hard, g_byte10,
                   g_locked, ltc_out_latency, transport, txf, out, g_ret,
                   nblocks,
                   nfail>>

NextResample ==
    \/ ResampleBegin
    \/ InsertStep
    \/ RemoveStep

SpecResample == InitResample /\ [][NextResample]_vars

(***************************************************************************)
(* The tolerance of the hard-resync test, applied on its own               *)
(***************************************************************************)
\* speeds in units of 1 / SpeedScale: -2, -1.5, -1, -0.1, 0, 0.1, 1, 1.1, 2, 10
TolSpeeds ==
    {-2 * SpeedScale, -(3 * SpeedScale) \div 2, -SpeedScale,
     -(SpeedScale \div 10), 0, SpeedScale \div 10, SpeedScale,
     (11 * SpeedScale) \div 10, 2 * SpeedScale, 10 * SpeedScale}

TolFormats ==
    {"timecode_23976", "timecode_24", "timecode_24976", "timecode_25",
     "timecode_2997", "timecode_30"}

\* nominal_sample_rate () beside the engine's sample_rate ()
TolNominalRates == {EngineRate, EngineRate - 100}

\* no external master, or the resolution of the external master
TolResolutions == {-1, 0, 1, 40}

InitTol ==
    /\ InitFields
    /\ InitEnv
    /\ InitLocals
    /\ InitHist
    /\ nblocks = 0
    /\ nfail = 0
    /\ transport = 0
    /\ fn_in \in TolSpeeds \X TolFormats \X TolNominalRates \X TolResolutions
    /\ fn_out = NoFn

ApplyMaxDiff ==
    /\ fn_in # NoFn
    /\ fn_out = NoFn
    /\ fn_out' = <<maxdiff(fn_in[1], fn_in[2], fn_in[3], EngineRate, fn_in[4])>>
    /\ UNCHANGED <<session_vars, env_vars_but_fn, fn_in, local_vars,
                   hist_vars, ltc_out_latency, transport, pc, txf, out,
                   g_sites, g_ret, nblocks, nfail>>

NextTol == ApplyMaxDiff

SpecTol == InitTol /\ [][NextTol]_vars

(***************************************************************************)
(* Properties                                                              *)
(***************************************************************************)
\* the fields ltc_tx_reset assigns, as it leaves them
ResetState(s) ==
    /\ s.ltc_enc_pos = Sentinel
    /\ s.ltc_buf_len = 0
    /\ s.ltc_buf_off = 0
    /\ s.ltc_enc_buf = << >>
    /\ s.ltc_enc_byte = 0
    /\ s.ltc_enc_cnt = 0

\* ltc_tx_reset was the last thing to touch the Session fields: the Xrun
\* handler ran since the last block, or the last block returned from a reset
JustReset ==
    \/ "xrun" \in g_sites
    \/ "init" \in g_sites
    \/ pc = "idle" /\ g_ret \in {"out_of_bounds", "race", "encoder_error",
                                 "empty"}

\* the block in flight, or the last block, came through the test of line 489
PastAlign ==
    \/ pc \in {"drain", "encode"}
    \/ pc = "idle" /\ g_ret \in {"done", "race", "defer", "encoder_error",
                                 "empty"}

\* the resets called by send_ltc_for_cycle in the current (or last) block
BlockSites == g_sites \ {"init", "xrun"}

\* C1: after ltc_tx_reset, applied to any reachable state or just run,
\* ltc_enc_pos is the sentinel, the buffer is empty, ltc_enc_byte and
\* ltc_enc_cnt are 0; and a block that enters the alignment test with
\* ltc_enc_pos at the sentinel takes the re-align (hard resync) branch.
C1_ResetForcesResync ==
    /\ ResetState(ltc_tx_reset(GS, "any"))
    /\ JustReset => ResetState(GS)
    /\ (PastAlign /\ g_blk.ltc_enc_pos = Sentinel) => g_hard

\* a block at the speed of the block before it, which had locked, found
\* ltc_enc_pos at the sentinel (a reset came in between) and re-aligned
C1_Witness ==
    /\ nblocks = 2
    /\ g_prevblk.tracked /\ g_prevblk.eff # 0
    /\ g_blk.ltc_speed = g_blk.raw
    /\ g_blk.ltc_enc_pos = Sentinel
    /\ BlockSites = {"realign"}
    /\ g_hard
    /\ g_ret = "done"

\* C2: after any call of ltc_tx_reset the restarting flag is false, whatever
\* it was before the call.
C2_ResetClearsRestarting ==
    /\ ~ltc_tx_reset(GS, "any").restarting
    /\ JustReset => ~restarting

\* C3: for every reachable state, ltc_tx_reset twice in a row leaves what
\* ltc_tx_reset once leaves, and that state is Idle: no valid position
\* (ltc_enc_pos negative), nothing buffered, no byte begun.
C3_ResetIdempotent ==
    LET once  == ltc_tx_reset(GS, "any")
        twice == ltc_tx_reset(once, "any")
    IN  /\ twice = once
        /\ once.ltc_enc_pos < 0
        /\ ResetState(once)

\* the Xrun handler resets a generator that is locked with unread samples,
\* mid-frame, at a valid position
C3_Witness ==
    /\ pc = "idle"
    /\ g_ret = "done"
    /\ g_blk.eff # 0
    /\ GS # ltc_tx_reset(GS, "any")
    /\ ltc_enc_pos >= 0
    /\ ltc_buf_off < ltc_buf_len
    /\ ltc_enc_byte # 0
    /\ ENABLED Xrun

\* C4: 0 <= ltc_buf_off <= ltc_buf_len in every reachable state, at every
\* point of send_ltc_for_cycle, the resampling loops and the drain included;
\* the buffer holds ltc_buf_len samples.
C4_ReadOffsetWithinLength ==
    /\ 0 <= ltc_buf_off
    /\ ltc_buf_off <= ltc_buf_len
    /\ Len(ltc_enc_buf) = ltc_buf_len

\* a block that removed a sample from its unread samples and then drained
\* the rest
C4_Witness ==
    /\ g_ret = "done"
    /\ incnt > 0
    /\ g_blk.unread > 0
    /\ Abs(g_blk.eff) > Abs(g_blk.ltc_speed)
    /\ g_out_carried > 0
    /\ g_nwritten = BlockLen

\* C5: ltc_enc_byte is in 0..9 in every state send_ltc_for_cycle returns in
\* and in every call of ltc_encoder_encode_byte; the byte 10 that the forward
\* re-align computes is wrapped to 0 within the same step.
C5_ByteIndexInRange ==
    /\ ltc_enc_byte \in 0..9
    /\ g_nenc > 0 => g_enc_arg \in 0..9
    /\ (g_byte10 /\ ltc_enc_cnt = fptcf(cfg_format) * SpeedScale)
          => ltc_enc_byte = 0

\* a forward re-align computed byte 10, and the block went on to encode
C5_Witness ==
    /\ g_byte10
    /\ g_nenc > 0
    /\ g_enc_arg \in 0..9
    /\ g_ret = "done"

\* a block that reached the tracker with end_sample = start_sample
Stopped(b) == b.tracked /\ b.raw = 0

\* a block that reached the tracker with a speed from 0.1 to 10
Rolling(b) == b.tracked /\ b.eff # 0 /\ ~OutOfBounds(b.eff)

\* the current block runs against the direction of the block before it
Reversal ==
    /\ g_prevblk.tracked
    /\ g_blk.tracked
    /\ \/ g_prevblk.raw > 0 /\ g_blk.raw < 0
       \/ g_prevblk.raw < 0 /\ g_blk.raw > 0

\* C6: in a block that runs against the direction of the block before it,
\* ltc_tx_reset has run by the time the first sample can be written, no
\* sample encoded before the block is left in the buffer, and none is
\* written to the output.
C6_ReversalResets ==
    Reversal =>
       /\ g_carry = 0
       /\ g_out_carried = 0
       /\ pc \notin {"align", "insert", "remove"} => BlockSites # {}
       /\ g_nwritten > 0 => BlockSites # {}

\* a block reversed the direction while unread samples of the old direction
\* were buffered, reset, and filled its output with new samples
C6_Witness ==
    /\ Reversal
    /\ g_blk.unread > 0
    /\ g_blk.ltc_enc_pos >= 0
    /\ "direction" \in BlockSites
    /\ g_ret = "done"
    /\ g_nwritten > 0
    /\ g_out_carried = 0

\* C7: a block whose speed is beyond 10 in magnitude calls ltc_tx_reset,
\* returns with nothing written (the output is the silence of line 178), nothing
\* encoded, and ltc_enc_pos at the sentinel.
C7_OutOfBoundsResets ==
    (g_blk.tracked /\ Abs(g_blk.raw) > 10 * SpeedScale) =>
       /\ pc = "idle"
       /\ g_ret = "out_of_bounds"
       /\ "out_of_bounds" \in BlockSites
       /\ out = Silence
       /\ g_nwritten = 0
       /\ g_nenc = 0
       /\ ltc_enc_pos = Sentinel
       /\ ltc_buf_len = 0

\* a generator that was locked, with unread samples, met such a block
C7_Witness ==
    /\ g_ret = "out_of_bounds"
    /\ Abs(g_blk.raw) > 10 * SpeedScale
    /\ g_blk.ltc_enc_pos >= 0
    /\ g_blk.unread > 0
    /\ ltc_enc_pos = Sentinel
    /\ out = Silence

C9_StoppedResetsOnFirstOrSeekOnly ==
    (Stopped(g_blk) /\ g_blk.cont /\ g_prevblk.tracked /\ g_prevblk.cont
       /\ pc = "idle") =>
       (BlockSites # {} <=>
           (Rolling(g_prevblk) \/ g_blk.start # g_prevblk.start))

\* C10: a block with end_sample = start_sample and continuous generation
\* disabled returns with the output all silence, no call of
\* ltc_encoder_encode_byte and ltc_speed = 0.
C10_StoppedDisabledIsIdle ==
    (g_blk.tracked /\ g_blk.end = g_blk.start /\ ~g_blk.cont) =>
       /\ pc = "idle"
       /\ g_ret = "not_rolling"
       /\ out = Silence
       /\ g_nwritten = 0
       /\ g_nenc = 0
       /\ g_enc_arg = -1
       /\ ltc_speed = 0

\* such a block after a locked rolling block: ltc_speed was not 0 before
C10_Witness ==
    /\ g_blk.tracked
    /\ g_blk.end = g_blk.start
    /\ ~g_blk.cont
    /\ g_blk.ltc_speed # 0
    /\ g_blk.unread > 0
    /\ g_ret = "not_rolling"
    /\ out = Silence
    /\ ltc_speed = 0

(***************************************************************************)
(* The hard-resync test of the alignment step.                             *)
(***************************************************************************)
\* the expected encoder position of the block at the alignment step, against
\* the aligned start of the block, both modulo 24 hours
Drift ==
    Abs(Fmod(ltc_enc_pos + CeilDiv(ltc_enc_cnt - poff, SpeedScale), wrap24h)
        - (cycle_start_sample % wrap24h))

\* the tolerance of the block at the alignment step
Tolerance == MaxDiff(new_ltc_speed, cfg_format)

\* the alignment step took the hard-resync branch: reset and reseed
TookHardResync ==
    /\ g_hard'
    /\ "realign" \in g_sites'

\* C12 as stated: the hard-resync branch is taken if and only if the encoded
\* position is the sentinel or the drift modulo 24 hours exceeds the
\* tolerance. The code adds a condition: a stopped block (speed 0, tolerance
\* 0) never resyncs on drift.
C12_HardResyncIffDrift ==
    [][Align => (TookHardResync <=> (ltc_enc_pos < 0 \/ Drift > Tolerance))]_vars

\* C12 amended: the hard-resync branch is taken if and only if the encoded
\* position is the sentinel, or the block's speed is not zero and the drift
\* modulo 24 hours exceeds the tolerance.
C12_HardResyncIffMovingDrift ==
    [][Align => (TookHardResync <=>
                   (ltc_enc_pos < 0
                    \/ (new_ltc_speed # 0 /\ Drift > Tolerance)))]_vars

\* a block that entered with a valid encoded position and resynced on drift
C12_Witness ==
    /\ g_hard
    /\ g_blk.ltc_enc_pos >= 0
    /\ BlockSites = {"realign"}
    /\ pc = "drain"

(***************************************************************************)
(* The tolerance                                                           *)
(***************************************************************************)
\* ceil (fabs (speed)) of a speed in units of 1 / SpeedScale
CeilAbsSpeed(speed) ==
    CHOOSE n \in 0..11 : (n - 1) * SpeedScale < Abs(speed)
                         /\ Abs(speed) <= n * SpeedScale

\* C13: the tolerance is 2 * ceil(|speed|), times 3 when the engine's and the
\* nominal sample rate differ, times 15 for the 23.976 and 24.976 fps formats,
\* times 45 when both hold; with an external transport master it is exactly
\* the master's resolution.
C13_Tolerance ==
    fn_out # NoFn =>
        LET speed == fn_in[1]
            slow  == fn_in[2] \in {"timecode_23976", "timecode_24976"}
            rates == fn_in[3] # EngineRate
            base  == 2 * CeilAbsSpeed(speed)
        IN  IF fn_in[4] >= 0 THEN fn_out[1] = fn_in[4]
            ELSE /\ (~rates /\ ~slow) => fn_out[1] = base
                 /\ (rates /\ ~slow) => fn_out[1] = 3 * base
                 /\ (~rates /\ slow) => fn_out[1] = 15 * base
                 /\ (rates /\ slow) => fn_out[1] = 45 * base

\* both factors at once: speed 1.1 at 24.976 fps with differing rates gives
\* 2 * 2 * 3 * 15
C13_Witness ==
    /\ fn_out # NoFn
    /\ fn_in[1] = (11 * SpeedScale) \div 10
    /\ fn_in[2] = "timecode_24976"
    /\ fn_in[3] # EngineRate
    /\ fn_in[4] = -1
    /\ fn_out[1] = 180

(***************************************************************************)
(* Resampling abandoned                                                    *)
(***************************************************************************)
\* the current (or last) block changed a nonzero speed to another of the same
\* direction, and the change asks for more samples to be added than the
\* unread part of the buffer holds, or more removed than would remain
AsksTooMuch ==
    /\ Rolling(g_blk)
    /\ g_blk.ltc_speed # 0
    /\ g_blk.ltc_speed # g_blk.raw
    /\ SIGNUM(g_blk.raw) = SIGNUM(g_blk.ltc_speed)
    /\ LET L    == g_blk.unread
           a    == Abs(g_blk.ltc_speed)
           b    == Abs(g_blk.eff)
           need == Abs(Rint(L * a - L * b, b))
       IN  need > L \/ need * b > L * a

\* C18: when the speed change asks for more samples than the unread buffer
\* holds, reset() is called in place of the resampling, the block goes on to
\* the alignment step with the sentinel and an empty buffer, and takes the
\* hard-resync branch there.
C18_ResampleAbandoned ==
    AsksTooMuch =>
        /\ "resample" \in BlockSites
        /\ pc = "align" \/ PastAlign
        /\ pc = "align" =>
              (ltc_enc_pos = Sentinel /\ ltc_buf_len = 0 /\ poff = 0)
        /\ PastAlign => g_hard

\* such a block has written samples of the resynced signal and completed
C18_Witness ==
    /\ AsksTooMuch
    /\ g_hard
    /\ g_nwritten > 0
    /\ pc = "idle"
    /\ g_ret = "done"

(***************************************************************************)
(* Speed-change resampling                                                 *)
(***************************************************************************)
\* the loops of the resampling have run to their end, without a reset
Resampled ==
    /\ fn_out # NoFn
    /\ pc = "align"
    /\ "resample" \notin g_sites

UnreadPart == SubSeq(ltc_enc_buf, ltc_buf_off + 1, ltc_buf_len)

\* the levels of a waveform, one per run
RunsOf(w) ==
    SelectSeq([i \in 1..Len(w) |-> IF i > 1 /\ w[i] = w[i - 1] THEN 0 ELSE w[i]],
              LAMBDA v : v # 0)

\* C16: after a resampling without reset of L unread samples from speed a to
\* speed b, the unread count is within one sample of round(L * |a / b|), and
\* the read offset is unchanged.
C16_ResampledLength ==
    Resampled =>
        /\ Abs(Len(UnreadPart) - Rint(fn_out[1] * Abs(ltc_speed), Abs(fn_in[1])))
              <= 1
        /\ ltc_buf_off = fn_out[2]

\* C17: the resampling neither creates nor destroys a level transition: the
\* run sequence of the unread part is the same before and after.
C17_RunsPreserved ==
    Resampled => RunsOf(UnreadPart) = RunsOf(fn_out[3])

(***************************************************************************)
(* Encoder failure                                                         *)
(***************************************************************************)
\* the last block returned because ltc_encoder_encode_byte reported an error
\* or because no sample was produced for the byte
EncoderFailed ==
    /\ pc = "idle"
    /\ g_ret \in {"encoder_error", "empty"}

\* C19: a block that ends on an encoder error or on zero samples leaves the
\* reset state (sentinel, empty buffer) and the generator alive; the next
\* block enters with the sentinel, and a block that reaches the alignment
\* test with the sentinel takes the hard-resync branch.
C19_EncoderFailureResets ==
    /\ [](EncoderFailed => (ResetState(GS) /\ alive))
    /\ [][(EncoderFailed /\ BlockBegin) =>
            g_blk'.ltc_enc_pos = Sentinel]_vars
    /\ [][(Align /\ g_blk.ltc_enc_pos = Sentinel) =>
            (g_hard' /\ "realign" \in g_sites')]_vars

\* the only encoder failure happened in the first block; the second block
\* found the sentinel, resynced and rendered samples to its end
C19_Witness ==
    /\ nblocks = 2
    /\ nfail = 1
    /\ g_prevblk.tracked
    /\ g_blk.ltc_enc_pos = Sentinel
    /\ g_hard
    /\ g_nenc > 0
    /\ g_nwritten > 0
    /\ pc = "idle"
    /\ g_ret = "done"

\* C20: a block that ends on an encoder error or on zero samples has
\* written no sample: its output is all silence.
C20_FailedBlockIsSilent ==
    EncoderFailed => (out = Silence /\ g_nwritten = 0)


\* the run has rendered its last block, every one of them rolling at the
\* speed of the first
RunCompleted ==
    pc = "idle" /\ nblocks = MaxRunBlocks /\ Rolling(g_blk)

\* C14: from the state after construction, a run of contiguous blocks at
\* one constant speed between 0.1 and 10 is Locked (the block passed the
\* alignment test without a re-align and real encoder bytes are emitted)
\* after a bounded number of blocks, and once Locked no later block of
\* the run takes the re-align branch.
C14_LocksAndStaysLocked ==
    /\ [](RunCompleted => g_locked)
    /\ [][(Align /\ g_locked) => ~g_hard']_vars


\* the distance between the expected encoder position and the aligned start
\* of the block on the 24 hour circle
ModularDrift ==
    LET d == (ltc_enc_pos + CeilDiv(ltc_enc_cnt - poff, SpeedScale)
              - cycle_start_sample) % wrap24h
    IN  Min(d, wrap24h - d)

\* C15: a Locked engine rolling at constant speed does not take the
\* hard-resync branch because of the 24 hour wrap: when the expected
\* position and the aligned start agree modulo 24 hours within the
\* tolerance, the alignment step does not re-align.
C15_WrapKeepsLock ==
    [][(Align /\ g_locked /\ ltc_enc_pos >= 0 /\ new_ltc_speed # 0
              /\ ModularDrift <= Tolerance)
         => ~TookHardResync]_vars


\* a block of continuous generation with the transport stopped
StoppedBlock(b) == b.cont /\ b.start = b.end

\* C11: with continuous generation enabled and an encoder that does not
\* fail, over a run of stopped blocks at one position the engine keeps
\* emitting one timecode frame: once the run has been resynced, no step
\* changes the encoder's timecode or the encoded position, no block
\* re-aligns, and every byte is encoded with the length of a byte at speed
\* ratio 1.0, the byte index going round 0..9.
C11_StoppedRunRepeatsFrame ==
    [][(/\ nblocks > 0
        /\ StoppedBlock(g_blk)
        /\ StoppedBlock(g_blk')
        /\ g_blk'.start = g_blk.start
        /\ ltc_enc_pos >= 0)
       => /\ enc_tc' = enc_tc
          /\ ltc_enc_pos' = ltc_enc_pos
          /\ Align => ~g_hard'
          /\ g_nenc' > g_nenc =>
                /\ g_enc_arg' = ltc_enc_byte
                /\ g_enc_arg' \in 0..9
                /\ ltc_enc_byte' = (ltc_enc_byte + 1) % 10
                /\ ltc_buf_len'
                     \in EncodeOutcomes(SpeedScale, fptcf(cfg_format))]_vars

\* a later block of a stopped run has encoded byte 9 and gone round to
\* byte 0
C11_Witness ==
    /\ nblocks >= 4
    /\ StoppedBlock(g_blk)
    /\ g_prevblk.tracked /\ StoppedBlock(g_prevblk)
    /\ pc = "drain"
    /\ ~g_hard
    /\ g_enc_arg = 9
    /\ ltc_enc_byte = 0
    /\ ltc_enc_pos >= 0


(***************************************************************************)
(* Format changes                                                          *)
(***************************************************************************)
\* the Session fields of the generator are left as they are
FieldsUntouched == UNCHANGED session_vars

\* C21: when ltc_encoder_reinit refuses the new format, generation is
\* disabled: the encoder and the scratch buffer are released in that block;
\* from then on every block returns all silence and no step changes the
\* generator's fields; and the refusal is reported by that one block only,
\* no later block reports it again.
C21_ReinitFailureDisables ==
    /\ [](g_ret = "reinit_failed" => ~alive)
    /\ [][(FormatBlock /\ g_ret' = "reinit_failed")
            => (alive /\ ~alive' /\ FieldsUntouched /\ out' = Silence
                /\ pc' = "idle")]_vars
    /\ [][~alive
            => /\ ~alive'
               /\ FieldsUntouched
               /\ out' = Silence
               /\ pc' = "idle"
               /\ g_ret' # g_ret => g_ret' = "no_encoder"]_vars

\* a block after the one that reported the refusal has returned
C21_Witness ==
    /\ ~alive
    /\ g_ret = "no_encoder"
    /\ nblocks = 2
    /\ out = Silence


\* C22 as stated: after a refused reinit generation is disabled only until
\* the format is corrected: with the session's format back at the one the
\* encoder was set up for, a block is no longer refused for the missing
\* encoder.
C22_RecoversWhenFormatCorrected ==
    [][(FormatBlock /\ ~alive /\ cfg_format = ltc_enc_tcformat)
         => g_ret' # "no_encoder"]_vars

\* C22 as the code has it: a refused reinit disables generation for the
\* rest of the session: the refusing block releases the encoder, and
\* whatever the session's format becomes afterwards the encoder stays
\* released and every block returns silence at the test for the encoder.
C22_DisabledForTheSession ==
    /\ [][(FormatBlock /\ g_ret' = "reinit_failed") => ~alive']_vars
    /\ [][~alive => ~alive']_vars
    /\ [][(FormatBlock /\ ~alive)
            => (g_ret' = "no_encoder" /\ out' = Silence
                /\ pc' = "idle")]_vars

\* the format is back at the one the encoder was set up for, and the block
\* after the refusal was refused for the missing encoder
C22_Witness ==
    /\ ~alive
    /\ cfg_format = ltc_enc_tcformat
    /\ timecode_to_frames_per_second(cfg_format) <= 30
    /\ pc = "idle"
    /\ g_ret = "no_encoder"


\* C23: a block that finds the session's format different from the
\* encoder's, and whose reinit is accepted, has run ltc_tx_reset and taken
\* over the new format before it writes a sample: the samples buffered
\* under the old format are discarded, and none of them is written to the
\* output of that block.
C23_FormatChangeResets ==
    /\ [][(FormatBlock /\ alive /\ gate = "none"
              /\ cfg_format # ltc_enc_tcformat
              /\ g_ret' # "reinit_failed")
            => /\ "format" \in g_sites'
               /\ ltc_enc_tcformat' = cfg_format
               /\ ResetState(GS')
               /\ g_carry' = 0
               /\ out' = Silence]_vars
    /\ []("format" \in g_sites => g_out_carried = 0)

\* a block that began with unread samples of the old format has rendered
\* in the new one
C23_Witness ==
    /\ "format" \in g_sites
    /\ g_blk.unread > 0
    /\ g_ret = "done"
    /\ g_nwritten > 0
    /\ ltc_enc_tcformat = "timecode_25"


\* the session's format has more than 30 frames per second
FastFormat == timecode_to_frames_per_second(cfg_format) > 30

\* C24 as stated: while the session's format has more than 30 frames per
\* second the format is rejected with the error of a refused reinit
\* (generation disabled, the encoder keeps its former format) and the
\* block is silence.
C24_FastFormatRejected ==
    [][(FormatBlock /\ FastFormat)
         => /\ out' = Silence
            /\ pc' = "idle"
            /\ ~alive'
            /\ ltc_enc_tcformat' # cfg_format]_vars

\* C24 as the code has it: a block that finds a format of more than 30
\* frames per second writes no sample and returns; the format is not
\* rejected: unless ltc_encoder_reinit itself refuses it, the encoder is
\* reinitialised to the format and reset, no error is reported and the
\* encoder is kept, not released.
C24_FastFormatIsSilent ==
    /\ [][(FormatBlock /\ FastFormat)
            => /\ out' = Silence
               /\ pc' = "idle"
               /\ g_nwritten' = 0
               /\ g_ret' \in {"fps", "reinit_failed", "no_encoder"}]_vars
    /\ [][(FormatBlock /\ FastFormat /\ g_ret' = "fps")
            => /\ alive /\ alive'
               /\ ltc_enc_tcformat' = cfg_format
               /\ (cfg_format # ltc_enc_tcformat) =>
                     ("format" \in g_sites' /\ ResetState(GS'))]_vars

\* a block found 60 frames per second, reinitialised the encoder to it
\* and returned without a sample
C24_Witness ==
    /\ g_ret = "fps"
    /\ pc = "idle"
    /\ cfg_format = "timecode_60"
    /\ ltc_enc_tcformat = "timecode_60"
    /\ alive
    /\ "format" \in g_sites
    /\ out = Silence


(***************************************************************************)
(* Order of the bytes and the encoder's timecode                           *)
(***************************************************************************)
\* the step handed a byte to ltc_encoder_encode_byte and got its samples
EncodedByte == Encode /\ g_nenc' = g_nenc + 1 /\ pc' = "drain"

\* the timecode of the frame that holds the aligned start of the block
SeedTimecode ==
    [sample_to_timecode(cycle_start_sample, cfg_format)
        EXCEPT !.hours = @ % 24]

\* C25: rolling forward, the bytes handed to the encoder have indices that
\* go up by one modulo 10 and the encoder's timecode is incremented once
\* per group of ten, after byte 9 and before the byte 0 that follows;
\* rolling in reverse the indices go down by one modulo 10 and the timecode
\* is decremented once per group, just before byte 9. No step other than
\* an encoded byte, a filler byte at the end of a frame or a re-align
\* changes the index or the timecode. A re-align seeds the timecode of the
\* frame of the aligned start, or the next one when it skipped to the next
\* frame, and the fillers that follow a forward re-align inside a frame end
\* at the first frame boundary, where the timecode is incremented once: the
\* first group carries the seeded timecode or its successor.
C25_ByteOrderAndTimecode ==
    /\ [][(EncodedByte /\ ltc_speed > 0)
            => /\ g_enc_arg' = ltc_enc_byte
               /\ ltc_enc_byte' = (ltc_enc_byte + 1) % 10
               /\ enc_tc' = IF ltc_enc_byte = 9
                            THEN ltc_encoder_inc_timecode(enc_tc, cfg_format)
                            ELSE enc_tc]_vars
    /\ [][(EncodedByte /\ ltc_speed < 0)
            => /\ g_enc_arg' = (ltc_enc_byte + 9) % 10
               /\ ltc_enc_byte' = g_enc_arg'
               /\ enc_tc' = IF ltc_enc_byte = 0
                            THEN ltc_encoder_dec_timecode(enc_tc, cfg_format)
                            ELSE enc_tc]_vars
    /\ [][(Encode /\ restarting /\ ltc_speed > 0)
            => /\ g_nenc' = g_nenc
               /\ restarting' = (ltc_enc_byte # 9)
               /\ enc_tc' = IF ltc_enc_byte = 9
                            THEN ltc_encoder_inc_timecode(enc_tc, cfg_format)
                            ELSE enc_tc]_vars
    /\ [][(Align /\ g_hard' /\ pc' = "drain")
            => enc_tc' = IF g_byte10'
                         THEN ltc_encoder_inc_timecode(SeedTimecode,
                                                       cfg_format)
                         ELSE SeedTimecode]_vars
    /\ [][(Drain \/ (Align /\ ~g_hard') \/ (RunBlock /\ g_sites' = {}))
            => UNCHANGED <<ltc_enc_byte, enc_tc>>]_vars

\* a Locked run rolling forward has encoded byte 9, incremented the
\* timecode and gone on to byte 0
C25_Witness ==
    /\ g_locked
    /\ ltc_speed > 0
    /\ pc = "drain"
    /\ g_enc_arg = 9
    /\ ltc_enc_byte = 0
    /\ g_nenc >= 1
    /\ timecode_to_sample(enc_tc, cfg_format) = ltc_enc_pos
    /\ ltc_enc_pos > 0

\* a notification slot runs while a block is in flight
InFlightNotification ==
    /\ pc # "idle"
    /\ XrunSignal \/ LatencySignal

\* C26: an Xrun or LatencyUpdated notification delivered while a block is in
\* flight leaves the Session fields of the generator as they are; an Xrun
\* delivered between two blocks leaves them as ltc_tx_reset sets them, no
\* block in flight, and the next block re-aligns; a LatencyUpdated with
\* playback = false leaves ltc_out_latency as it is. The signals are emitted
\* by their own threads (SpecAsync).
C26_NotificationsBetweenBlocks ==
    /\ [][InFlightNotification => FieldsUntouched]_vars
    /\ [][(XrunSignal /\ pc = "idle")
            => (ResetState(GS') /\ pc' = "idle")]_vars
    /\ [][(AsyncBlock /\ ResetState(GS) /\ pc' = "align")
            => ltc_enc_pos' = Sentinel]_vars
    /\ [][(Align /\ ltc_enc_pos = Sentinel) => g_hard']_vars
    /\ [][LatencySlot(FALSE) => UNCHANGED ltc_out_latency]_vars

\* x, or 0 where x is negative
AtLeastZero(x) == IF x < 0 THEN 0 ELSE x

\* the TV standard offset of the frame of a block of SpecAligned
AlignedOffset == ltc_frame_alignment(fn_in[4][1], fn_in[4][2])

\* C27: cycle_start_sample is start_sample + ltc_out_latency.max less the TV
\* standard offset when the block rolls forward, start_sample -
\* ltc_out_latency.max less the offset when it rolls backward, 0 where that
\* is negative, and start_sample itself for every block that line 318 takes
\* as not rolling; it is never negative.
C27_AlignedStart ==
    fn_out # NoFn =>
        LET start == fn_in[1]
            raw0  == RawSpeed(fn_in[2])
            lat   == fn_in[3]
            cs    == fn_out[1]
        IN  /\ cs >= 0
            /\ (~fn_out[2] /\ raw0 > 0)
                  => cs = AtLeastZero(start + lat - AlignedOffset)
            /\ (~fn_out[2] /\ raw0 < 0)
                  => cs = AtLeastZero(start - lat - AlignedOffset)
            /\ fn_out[2] => cs = start

\* soff of lines 446-449 for the block being aligned
Soff ==
    IF new_ltc_speed = 0 THEN 0
    ELSE cycle_start_sample
         - timecode_to_sample(sample_to_timecode(cycle_start_sample,
                                                 cfg_format), cfg_format)

\* C30: a block that re-aligns with soff outside [0, fptcf), fptcf being
\* what samples_per_timecode_frame () answers, and no other block, returns
\* at line 519: ltc_tx_reset has run, the block has written no sample, and
\* the next block finds ltc_enc_pos at the sentinel and re-aligns.
C30_StaleFrameLengthAborts ==
    /\ [][(Align /\ g_hard'
             /\ (Soff < 0 \/ Soff >= samples_per_timecode_frame))
            => /\ g_ret' = "race"
               /\ "race" \in g_sites'
               /\ ResetState(GS')
               /\ pc' = "idle"
               /\ out' = Silence
               /\ g_nwritten' = 0]_vars
    /\ [][(Align /\ g_ret' = "race")
            => /\ g_hard'
               /\ (Soff < 0 \/ Soff >= samples_per_timecode_frame)]_vars
    /\ [][(RaceBlock /\ g_ret = "race" /\ pc' = "align")
            => ltc_enc_pos' = Sentinel]_vars
    /\ [][(Align /\ ltc_enc_pos = Sentinel) => g_hard']_vars

\* a block returned at line 519: the configuration says 25 fps, the frame
\* length is that of 30 fps
C30_Witness ==
    /\ g_ret = "race"
    /\ pc = "idle"
    /\ cfg_format = "timecode_25"
    /\ spf_format = "timecode_30"
    /\ ltc_enc_pos = Sentinel
    /\ out = Silence

\* cyc_off of lines 522-549 for the block being aligned
CycOff == RealignByte(new_ltc_speed, Soff, samples_per_timecode_frame)[3]

\* C29: a block that re-aligns and computes a cyc_off outside 0..n_samples,
\* and no other block, returns at line 557: it has written no sample,
\* ltc_enc_pos is left at the sentinel and nothing is buffered, and the next
\* block re-aligns again.
C29_OffsetBeyondBlockDefers ==
    /\ [][(Align /\ g_hard'
             /\ Soff >= 0 /\ Soff < samples_per_timecode_frame
             /\ (CycOff < 0 \/ CycOff > n_samples))
            => /\ g_ret' = "defer"
               /\ pc' = "idle"
               /\ out' = Silence
               /\ g_nwritten' = 0
               /\ ltc_enc_pos' = Sentinel
               /\ ltc_buf_len' = 0]_vars
    /\ [][(Align /\ g_ret' = "defer")
            => /\ g_hard'
               /\ (CycOff < 0 \/ CycOff > n_samples)]_vars
    /\ [][(ShortBlock /\ g_ret = "defer")
            => /\ pc' = "align"
               /\ ltc_enc_pos' = Sentinel]_vars
    /\ [][(Align /\ ltc_enc_pos = Sentinel) => g_hard']_vars

\* a block of 2 samples returned at line 557: the next byte starts 3 samples
\* after the start of the block
C29_Witness ==
    /\ g_ret = "defer"
    /\ pc = "idle"
    /\ n_samples = ShortBlockLen
    /\ ltc_enc_byte = 1
    /\ ltc_enc_pos = Sentinel
    /\ out = Silence

\* what line 583 subtracts from ltc_speed in the block being aligned
SoftTerm ==
    Rint(FmodWrap(ltc_enc_pos - cycle_start_sample, ltc_enc_cnt - poff),
         EngineRate)

\* an LTC byte, a tenth of a timecode frame, lasts more than 3 samples at
\* the given speed
ByteOver3(speed) ==
    samples_per_timecode_frame * SpeedScale > 30 * Abs(speed)

\* C28: the alignment of a block subtracts the drift term from ltc_speed if
\* and only if the block does not re-align, its speed is not 0 and an LTC
\* byte lasts more than 3 samples at that speed, forward or reverse; it
\* leaves ltc_speed at the speed of the block otherwise.
C28_SoftCorrectionBothWays ==
    [][Align =>
         ltc_speed' = IF /\ ~g_hard'
                         /\ new_ltc_speed # 0
                         /\ ByteOver3(new_ltc_speed)
                      THEN new_ltc_speed - SoftTerm
                      ELSE new_ltc_speed]_vars

(***************************************************************************)
(* Filler while restarting                                                 *)
(***************************************************************************)
\* fptcf / 10.0, in the unit of ltc_enc_cnt
BytePart == (samples_per_timecode_frame * SpeedScale) \div 10

\* the reverse decrement of lines 613-620 is about to wrap to byte 9
ReverseRollover == ltc_speed < 0 /\ ltc_enc_byte = 0

\* C31: an encode step taken with restarting true, other than the reverse
\* step that wraps the index to 9, does not call ltc_encoder_encode_byte: it
\* buffers floor(fptcf / 10) samples of the filler level, moves ltc_enc_byte
\* on by one in the direction of travel and ltc_enc_cnt by fptcf / 10.
\* Whenever the encoder is called restarting is false. restarting goes from
\* true to false only in an encode step that wraps the index: to 0 after a
\* forward filler for byte 9, to 9 in reverse before the byte is rendered.
C31_FillerWhileRestarting ==
    /\ [][(Encode /\ restarting /\ ~ReverseRollover)
            => /\ g_nenc' = g_nenc
               /\ pc' = "drain"
               /\ ltc_buf_len' = samples_per_timecode_frame \div 10
               /\ ltc_buf_off' = 0
               /\ ltc_enc_buf' =
                     [i \in 1..(samples_per_timecode_frame \div 10) |-> Filler]
               /\ ltc_enc_byte' = IF ltc_speed < 0
                                  THEN (ltc_enc_byte + 9) % 10
                                  ELSE (ltc_enc_byte + 1) % 10
               /\ ltc_enc_cnt' = IF ltc_speed < 0 THEN ltc_enc_cnt - BytePart
                                 ELSE IF ltc_enc_byte = 9 THEN 0
                                 ELSE ltc_enc_cnt + BytePart
               /\ restarting' = (ltc_speed < 0 \/ ltc_enc_byte # 9)]_vars
    /\ [][(Encode /\ restarting /\ ReverseRollover)
            => /\ g_nenc' = g_nenc + 1
               /\ g_enc_arg' = 9
               /\ ~restarting']_vars
    /\ [][(g_nenc' # g_nenc /\ g_nenc' > 0) => (Encode /\ ~restarting')]_vars
    /\ [][(restarting /\ ~restarting')
            => /\ Encode
               /\ \/ ltc_speed >= 0 /\ ltc_enc_byte = 9
                  \/ ReverseRollover]_vars

\* a forward filler for byte 9 has just wrapped the index to 0 and cleared
\* restarting; the encoder has not been called in this block
C31_Witness ==
    /\ pc = "drain"
    /\ ~restarting
    /\ g_hard
    /\ g_nenc = 0
    /\ ltc_enc_byte = 0
    /\ ltc_speed > 0
    /\ ltc_buf_len = samples_per_timecode_frame \div 10
    /\ ltc_buf_off = 0
    /\ ltc_enc_buf = [i \in 1..ltc_buf_len |-> Filler]

(***************************************************************************)
(* The first byte rendered after a re-align                                *)
(***************************************************************************)
\* nothing of the encoder is in the buffer: it is empty, as ltc_tx_reset
\* leaves it, or holds filler
NoEncoderByteBuffered ==
    \/ ltc_enc_buf = << >>
    \/ \A i \in 1..Len(ltc_enc_buf) : ltc_enc_buf[i] = Filler

\* the re-align of the block being aligned starts its first byte inside a
\* timecode frame
LandsMidFrame ==
    RealignByte(new_ltc_speed, Soff, samples_per_timecode_frame)[1] # 0

\* C32: the first byte that ltc_encoder_encode_byte renders after a
\* re-align, that is every byte rendered when the buffer holds nothing of
\* the encoder, is byte 0 when ltc_speed >= 0 and byte 9 when ltc_speed < 0;
\* a re-align that goes on to render and starts its first byte inside a
\* frame sets restarting.
C32_FirstByteAtFrameBoundary ==
    /\ [][(EncodedByte /\ NoEncoderByteBuffered)
            => g_enc_arg' = IF ltc_speed < 0 THEN 9 ELSE 0]_vars
    /\ [][(Align /\ g_hard' /\ pc' = "drain" /\ LandsMidFrame)
            => restarting']_vars

(***************************************************************************)
(* The state after construction                                            *)
(***************************************************************************)
\* send_ltc_for_cycle has not been called since ltc_tx_initialize
NoBlockYet == nblocks = 0 /\ pc = "idle" /\ g_ret = "none"

\* a step in which ltc_tx_reset ran: the Xrun slot, or a step of a block
\* that went through one of its calls
ResetRan ==
    \/ XrunSlot
    \/ /\ pc = "idle"
       /\ pc' # "idle" \/ g_ret' # g_ret
       /\ g_sites' # {}
    \/ /\ pc # "idle"
       /\ g_sites' # g_sites

\* C33: until the first block the Session fields are as ltc_tx_initialize
\* leaves them: ltc_enc_pos at the sentinel, the buffer empty, ltc_enc_byte
\* 0, ltc_enc_cnt 0, ltc_speed 0, ltc_prev_cycle -1, restarting false. After
\* that, ltc_enc_pos comes to the sentinel only in a step in which
\* ltc_tx_reset ran, the reset before a re-initialised encoder included.
C33_IdleByConstructionOrReset ==
    /\ [](NoBlockYet
            => /\ ResetState(GS)
               /\ ltc_speed = 0
               /\ ltc_prev_cycle = -1
               /\ ~restarting)
    /\ [][(ltc_enc_pos # Sentinel /\ ltc_enc_pos' = Sentinel)
            => ResetRan]_vars
    /\ [][(~ResetState(GS) /\ ResetState(GS')) => ResetRan]_vars

\* an Xrun between two blocks of a rolling transport brought the fields back
\* to the reset state
C33_Witness ==
    /\ pc = "idle"
    /\ nblocks > 0
    /\ "xrun" \in g_sites
    /\ ResetState(GS)
    /\ ltc_speed # 0
    /\ ltc_prev_cycle >= 0

(***************************************************************************)
(* The rise time of the encoder's filter                                   *)
(***************************************************************************)
\* C34: LTC_RISE_TIME (s) is a function of |s|: it equals LTC_RISE_TIME (-s)
\* for every speed s; it lies in [40, 100], and speed 0 gives what speed 1
\* gives. The values are in tenths.
C34_RiseTimeOfMagnitude ==
    fn_out # NoFn =>
        /\ fn_out[1] >= 400
        /\ fn_out[1] <= 1000
        /\ fn_out[1] = LTC_RISE_TIME(-fn_in[1], fn_in[2])
        /\ fn_in[1] = 0 => fn_out[1] = LTC_RISE_TIME(SpeedScale, fn_in[2])

\* the output indices (counted from 1) that a step stores a sample into
Stored == {i \in 1..n_samples : out'[i] # out[i]}

\* C35: within one block only the loop (6a) stores samples into the output;
\* each pass of it stores at consecutive indices that start at txf and stay
\* below n_samples, leaves every index below txf and every index it does not
\* reach as it was, and advances txf past what it stored, so no index is
\* stored twice; a pass that finds txf at or beyond n_samples stores nothing
\* and ends the block.
C35_WritesInsideBlockInOrder ==
    /\ [][Drain =>
            /\ DOMAIN out' = 1..n_samples
            /\ Stored \subseteq (txf + 1)..txf'
            /\ txf' >= txf
            /\ g_nwritten' = g_nwritten + (txf' - txf)
            /\ (txf < n_samples => txf' <= n_samples)
            /\ (txf >= n_samples =>
                   txf' = txf /\ out' = out /\ pc' = "idle")]_vars
    /\ [][(pc # "idle" /\ ~Drain) => out' = out]_vars
    /\ [][(pc = "idle" /\ pc' # "idle") => g_nwritten' = 0]_vars

\* a block whose start offset is at or beyond the block length has ended
\* with nothing stored, and a block that stored samples from a start offset
\* inside the block has ended
C35_Witness ==
    /\ pc = "idle"
    /\ g_ret = "done"
    /\ ltc_speed # 0
    /\ txf >= n_samples
    /\ g_nwritten = 0
    /\ out = Silence

C35_WitnessStored ==
    /\ pc = "idle"
    /\ g_ret = "done"
    /\ g_nwritten > 0
    /\ out # Silence

\* C36: the scratch buffer never holds more samples than were allocated for
\* it, nominal_sample_rate() / 23, after a resampling by insertion and after
\* a byte was encoded or filled at the slowest speeds.
C36_ScratchWithinCapacity ==
    ltc_buf_len <= ScratchCapacity

\* C37: the render loop ends in every block.  A pass of the loop (6a) that
\* finds unread samples and room in the block stores at least one sample; it
\* ends the block when the block is full and otherwise leaves the buffer read
\* to its end; a byte that is encoded or filled without a return leaves a
\* buffer that is not empty while the block has room, so the pass that
\* follows stores a sample; hence a block that was begun comes to its end.
C37_RenderLoopTerminates ==
    /\ [][(Drain /\ ltc_buf_off < ltc_buf_len /\ txf < n_samples)
            => (txf' > txf /\ g_nwritten' > g_nwritten)]_vars
    /\ [][Drain => \/ pc' = "idle" /\ txf' >= n_samples
                   \/ /\ pc' = "encode"
                      /\ txf' < n_samples
                      /\ ltc_buf_off' >= ltc_buf_len']_vars
    /\ [][Encode => \/ pc' = "idle" /\ g_ret' \in {"encoder_error", "empty"}
                    \/ /\ pc' = "drain"
                       /\ ltc_buf_off' = 0
                       /\ ltc_buf_len' > 0
                       /\ txf' = txf
                       /\ txf < n_samples]_vars
    /\ (pc # "idle" ~> pc = "idle")

\* a block has ended after the loop encoded more than one byte
C37_Witness ==
    /\ pc = "idle"
    /\ g_ret = "done"
    /\ g_nenc > 1
    /\ g_nwritten = n_samples

\* C38: ltc_tx_reset runs only while the encoder exists.  Every step in
\* which it ran, as the slot of Xrun or inside a block, began and ended with
\* the encoder in place, and once ltc_tx_cleanup has released the encoder no
\* field of the generator is assigned again.
C38_ResetOnlyWithEncoder ==
    /\ [][ResetRan => (alive /\ alive')]_vars
    /\ [][~alive => (~alive' /\ session_vars' = session_vars
                      /\ g_sites' = {})]_vars

\* the encoder was released, a later block has returned at the test for the
\* encoder, and no reset ran
C38_Witness ==
    /\ ~alive
    /\ nblocks > 1
    /\ g_ret = "no_encoder"
    /\ g_sites = {}

\* C39: a block that meets one of the conditions of lines 184-202 with the
\* encoder in place leaves the buffer of the port silent and returns: no
\* field of the generator changes (ltc_speed, ltc_prev_cycle, ltc_enc_pos,
\* ltc_enc_byte, ltc_enc_cnt, restarting, the scratch buffer and its
\* offsets, the encoder's timecode), no reset runs, and the format is not
\* compared: ltc_enc_tcformat and the encoder stay as they were even when the
\* format of the session has changed.
C39_GatedBlockChangesNothing ==
    [][(GateBlock /\ alive /\ gate # "none")
         => /\ out' = Silence
            /\ session_vars' = session_vars
            /\ ltc_out_latency' = ltc_out_latency
            /\ ltc_enc_tcformat' = ltc_enc_tcformat
            /\ alive'
            /\ g_sites' = {}
            /\ g_nwritten' = 0
            /\ g_ret' = "gated"
            /\ pc' = "idle"]_vars

\* a gated block has returned with unread samples in the scratch buffer and
\* the format of the session other than the encoder's
C39_Witness ==
    /\ pc = "idle"
    /\ g_ret = "gated"
    /\ gate # "none"
    /\ alive
    /\ ltc_buf_off < ltc_buf_len
    /\ ltc_enc_pos # Sentinel
    /\ cfg_format # ltc_enc_tcformat
    /\ out = Silence

=============================================================================
